---- MODULE Spec2Model ----
(***************************************************************************)
(* The lazy query engine of resdk (resdk/query.py) over one resolver       *)
(* endpoint (resdk/resolwe.py), as a state machine.  A state holds the     *)
(* ResolweQuery objects alive in the caller's program, the heap of their   *)
(* filter maps (a filter map is a mutable dict, so whether two queries     *)
(* hold the same dict is part of the state), the server's collection and   *)
(* the outcome of the call just made.                                      *)
(***************************************************************************)
EXTENDS Integers, Sequences, FiniteSets, TLC

\* ------------------------------------------------------------ bounds
NumObjects == 3     \* objects in the server's collection
MaxQueries == 2     \* query objects alive at once: the endpoint's and derived ones
MaxShared == 3      \* the same, where several derived queries are used side by side
MaxIndex == 1       \* greatest index or slice bound the caller uses
MaxChunk == 2       \* greatest chunk_size given to iterate()
MaxInserts == 1     \* objects the server gains while a program runs
MaxChained == 4     \* query objects alive at once where filter calls are chained
MaxRepeat == 6      \* the same, on two endpoints
MaxValues == 2      \* values in the page of a value query
MaxPoint == 2       \* query objects alive at once where ints and slices subscript them
MaxEncoded == 4     \* queries made by filter calls with entities and lists
MaxKeys == 3        \* queries made by filter calls with "__" keys
MaxEpoch == 2       \* changes of the related objects on the server

\* ------------------------------------------------------------ program constants
BigStop == 1000000  \* "default to something big" stop of an open slice
DefaultChunkSize == 100  \* iterate(chunk_size=100)

VARIABLES
    server,     \* ids of the objects in the endpoint's collection
    fmaps,      \* heap of filter maps: address -> (key -> entry)
    queries,    \* the query objects: <<endpoint query, derived queries...>>
    last,       \* the call just made and its outcome
    gen,        \* the generator object made by iterate(), and where it stands
    minted,     \* the greatest id the server has ever given to an object
    ent,        \* an entity: its id, its fields and the last call on it
    vq          \* a value query: the server's page, its cache, its last call

vars == <<server, fmaps, queries, last, gen, minted, ent, vq>>

\* ------------------------------------------------------------ values
\* A Python value that is None or an integer (limit, offset, count, slice bound).
None == [some |-> FALSE, v |-> 0]
Some(n) == [some |-> TRUE, v |-> n]

\* A Python scalar used as a filter value: an int or a str.
IntV(n) == [t |-> "int", n |-> n, s |-> ""]
StrV(s) == [t |-> "str", n |-> 0, s |-> s]

\* A filter value that is a resource object, and one that is a list of values.
EntV(id) == [t |-> "entity", n |-> id, s |-> ""]
SeqV(items) == [t |-> "list", n |-> 0, s |-> "", items |-> items]

\* The cache: absent, or the list of entities (by id) of the last fetch.
NoCache == [some |-> FALSE, v |-> <<>>]
Cached(ids) == [some |-> TRUE, v |-> ids]

\* A filter-map entry: a list of values (GET accumulates them) or a raw value.
ListOf(vals) == [list |-> TRUE, vals |-> vals]
Raw(v) == [list |-> FALSE, vals |-> <<v>>]

\* dict helpers
EmptyMap == [k \in {} |-> Raw(IntV(0))]
MapPut(f, k, e) == [x \in (DOMAIN f) \cup {k} |-> IF x = k THEN e ELSE f[x]]

\* One keyword argument; a kwargs dict is a sequence of them with distinct keys.
KV(k, v) == [k |-> k, v |-> v]
KwKeys(kwargs) == {kwargs[j].k : j \in 1..Len(kwargs)}
KwGet(kwargs, k, default) ==
    IF k \in KwKeys(kwargs)
    THEN (CHOOSE p \in {kwargs[j] : j \in 1..Len(kwargs)} : p.k = k).v
    ELSE default
KwSet(kwargs, k, v) ==
    IF k \in KwKeys(kwargs)
    THEN [j \in 1..Len(kwargs) |-> IF kwargs[j].k = k THEN KV(k, v) ELSE kwargs[j]]
    ELSE Append(kwargs, KV(k, v))

\* F applied to the value of e, e being evaluated once
Bind(e, F(_)) == CHOOSE r \in {F(x) : x \in {e}} : TRUE

Min(a, b) == IF a <= b THEN a ELSE b
Max(a, b) == IF a >= b THEN a ELSE b

\* ------------------------------------------------------------ field values
\* The values given to fields: None, ints, strings and lists of these.
NullV == [t |-> "null", n |-> 0, s |-> "", items |-> <<>>]
IntF(n) == [t |-> "int", n |-> n, s |-> "", items |-> <<>>]
StrF(x) == [t |-> "str", n |-> 0, s |-> x, items |-> <<>>]
BoolF(b) == [t |-> "bool", n |-> IF b THEN 1 ELSE 0, s |-> "", items |-> <<>>]
ListF(items) == [t |-> "list", n |-> 0, s |-> "", items |-> items]

\* a dict with the keys given, as the descriptor of a collection
DictF(keys) == [t |-> "dict", n |-> 0, s |-> "", items |-> keys]

\* the dict a related object comes as in a payload: {"id": id, "slug": slug}
RefJ(id, slug) == [t |-> "dict", n |-> id, s |-> slug, items |-> <<>>]

\* a resource object with the id and slug given
ResF(id, slug) == [t |-> "resource", n |-> id, s |-> slug, items |-> <<>>]

\* lambda: self.Resource.fetch_object(instance.resolwe, id=value)
LazyF(id) == [t |-> "lazy", n |-> id, s |-> "", items |-> <<>>]

\* query.filter(id__in=value): the query a list of ids is turned into
QueryF(ids) == [t |-> "query", n |-> 0, s |-> "", items |-> ids]

\* a datetime object; its iso format is the string IsoOf gives
DateF(stamp) == [t |-> "datetime", n |-> stamp, s |-> "", items |-> <<>>]
IsoOf(stamp) == IF stamp = 1 THEN "2024-01-01T00:00:00" ELSE "2024-01-02T00:00:00"

\* FieldStatus.UNSET with no value and no original: BaseField.reset
Unset == [value |-> NullV, original |-> NullV, status |-> "UNSET"]

\* A call on the entity: what was called, on which field and with which value,
\* what it raised ("ok" when it returned), what it returned, how many times it
\* invoked a loader and how many requests it sent.
CallRec(op, field, value, result, ret, loads, reqs) ==
    [op |-> op, field |-> field, value |-> value, result |-> result,
     ret |-> ret, loads |-> loads, reqs |-> reqs]

\* no call made on the entity yet
NoAssign == CallRec("none", "", NullV, "ok", NullV, 0, 0)

\* before any entity is constructed
NoEntity ==
    [type |-> "none", source |-> "USER", origin |-> "USER", id |-> None,
     fields |-> <<>>, epoch |-> 0, call |-> NoAssign]

\* no value query made yet
NoValues ==
    [page |-> <<>>, rels |-> {}, fetched |-> FALSE, cache |-> <<>>,
     call |-> [op |-> "none", i |-> 0, field |-> "", result |-> "ok", ret |-> NullV,
               loads |-> 0, reqs |-> <<>>]]

\* ------------------------------------------------------------ resource types
ResourceTypes == {"data", "user", "process"}

\* Resolwe.slug_field_mapping, read by Resolwe._initialize_queries
SlugFieldOf(r) ==
    IF r = "user" THEN "username" ELSE IF r = "group" THEN "name" ELSE "slug"

\* resource.query_method
QueryMethod(r) == IF r \in {"feature", "mapping"} THEN "POST" ELSE "GET"

\* resource.full_search_paramater ("" when the type declares none)
FullSearchParameter(r) == IF r \in {"data", "collection"} THEN "text" ELSE ""

\* issubclass(self.resource, (Process, DescriptorSchema))
Versioned(r) == r \in {"process", "descriptorschema"}

\* ------------------------------------------------------------ the server
ObjIds == 1..NumObjects
SlugOf(id) == IF id % 2 = 1 THEN "a" ELSE "b"
ContributorOf(id) == IF id <= 2 THEN 1 ELSE 2
VersionOf(id) == id

PaginationKeys == {"limit", "offset", "ordering"}

\* The value the server reads for a key sent several times: the last one.
EffVal(e) == e.vals[Len(e.vals)]

MatchKey(r, id, k, v) ==
    CASE k = "id" -> v.t = "int" /\ v.n = id
      [] k = "id__gt" -> v.t = "int" /\ id > v.n
      [] k = "contributor" -> v.t = "int" /\ ContributorOf(id) = v.n
      [] k = SlugFieldOf(r) -> v.t = "str" /\ SlugOf(id) = v.s
      [] k = "text" -> v.t = "str" /\ SlugOf(id) = v.s
      [] OTHER -> FALSE

Matching(r, srv, req) ==
    {id \in srv : \A k \in (DOMAIN req) \ PaginationKeys : MatchKey(r, id, k, EffVal(req[k]))}

RECURSIVE AscSeq(_)
AscSeq(S) ==
    IF S = {} THEN <<>>
    ELSE LET m == CHOOSE x \in S : \A y \in S : x <= y
         IN <<m>> \o AscSeq(S \ {m})

RECURSIVE DescVersionSeq(_)
DescVersionSeq(S) ==
    IF S = {} THEN <<>>
    ELSE LET m == CHOOSE x \in S : \A y \in S : VersionOf(x) >= VersionOf(y)
         IN <<m>> \o DescVersionSeq(S \ {m})

Ordered(S, req) ==
    IF "ordering" \in DOMAIN req /\ EffVal(req["ordering"]).s = "-version"
    THEN DescVersionSeq(S)
    ELSE AscSeq(S)

Page(seq, req) ==
    LET off == IF "offset" \in DOMAIN req THEN EffVal(req["offset"]).n ELSE 0
        upto == IF "limit" \in DOMAIN req
                THEN Min(Len(seq), off + EffVal(req["limit"]).n)
                ELSE Len(seq)
    IN IF off + 1 > upto THEN <<>> ELSE SubSeq(seq, off + 1, upto)

\* The paginated envelope the endpoint answers a list request with.
ServerResponse(r, srv, req) ==
    LET hits == Matching(r, srv, req)
    IN [envelope |-> TRUE,
        count |-> Cardinality(hits),
        results |-> Page(Ordered(hits, req), req)]

\* ------------------------------------------------------------ ResolweQuery
\* ResolweQuery.__init__ and the class attributes' defaults
NewQuery(r, slug_field, addr) ==
    [resource |-> r, slug_field |-> slug_field, filters |-> addr,
     limit |-> None, offset |-> None, cache |-> NoCache, count |-> None]

\* _clone that hands the receiver's own filter map to the new object
CloneShared(h, q) ==
    [h |-> h,
     q |-> [NewQuery(q.resource, "slug", q.filters)
               EXCEPT !.limit = q.limit, !.offset = q.offset]]

\* ResolweQuery._clone: a new object of the same class and resource, with a deep
\* copy of the filter map and the receiver's limit and offset.
Clone(h, q) ==
    [h |-> Append(h, h[q.filters]),
     q |-> [NewQuery(q.resource, "slug", Len(h) + 1)
               EXCEPT !.limit = q.limit, !.offset = q.offset]]

\* The temporary objects of a call are dropped when it returns.
Release(h, n) == SubSeq(h, 1, n)

\* ResolweQuery._dehydrate_resources: a resource gives its id, a list the list
\* of its dehydrated elements, anything else itself
RECURSIVE DehydrateResources(_)
DehydrateResources(v) ==
    IF v.t = "entity" THEN IntV(v.n)
    ELSE IF v.t = "list"
    THEN SeqV([j \in 1..Len(v.items) |-> DehydrateResources(v.items[j])])
    ELSE v

\* str(element) and ",".join(map(str, value))
StrOf(v) == IF v.t = "int" THEN ToString(v.n) ELSE v.s

RECURSIVE Join(_)
Join(items) ==
    IF items = <<>> THEN ""
    ELSE IF Len(items) = 1 THEN StrOf(items[1])
    ELSE StrOf(items[1]) \o "," \o Join(Tail(items))

\* the value _add_filter stores: dehydrated, and joined with commas when it is
\* an iterable that is no string, whatever the query method
EncodeValue(v) ==
    LET value == DehydrateResources(v)
    IN IF value.t = "list" THEN StrV(Join(value.items)) ELSE value

\* "__".join(filter_parts)
RECURSIVE JoinKey(_)
JoinKey(parts) ==
    IF Len(parts) = 1 THEN parts[1]
    ELSE parts[1] \o "__" \o JoinKey(Tail(parts))

\* The segment lists of the keys that are written with "__" between fields.
KeyPaths ==
    {<<"plain">>, <<"same">>, <<"rel", "inner">>, <<"rel", "plain">>,
     <<"plain", "inner">>, <<"plain", "plain">>, <<"other", "plain">>,
     <<"rel", "back", "plain", "in">>, <<"rel", "in", "inner">>,
     <<"back", "rel", "inner">>, <<"inner", "back">>, <<"back", "same", "rel">>}

\* key.split("__"): the segments whose join is the key; a key that is none of
\* the above is taken as one segment, which leaves it as it is.
Split(key) ==
    IF \E p \in KeyPaths : JoinKey(p) = key
    THEN CHOOSE p \in KeyPaths : JoinKey(p) = key
    ELSE <<key>>

\* A field declaration as key resolution sees it: the server_field_name
\* keyword ("" when not given) and, for a DictResourceField, the resource
\* class it names ("" for any other field).
KeyField(server_field_name, Resource) ==
    [server_field_name |-> server_field_name, Resource |-> Resource]

\* resource._find_fields(): the fields declared on the type, by public name.
\* "outer" and "inner" are two types that refer to each other.
FindFields(resource) ==
    CASE resource = "outer" ->
           [rel |-> KeyField("relation", "inner"),
            plain |-> KeyField("plain_srv", ""),
            same |-> KeyField("", "")]
      [] resource = "inner" ->
           [inner |-> KeyField("inner_srv", ""),
            plain |-> KeyField("", ""),
            back |-> KeyField("", "outer")]
      [] OTHER -> <<>>

\* BaseField.server_field
ServerField(field, public_name) ==
    IF field.server_field_name # "" THEN field.server_field_name ELSE public_name

\* the renaming loop that goes on after a field that is no relation, resolving
\* against the same type
RECURSIVE RenamePartsOn(_, _, _)
RenamePartsOn(resource, filter_parts, part_num) ==
    IF part_num > Len(filter_parts) THEN filter_parts
    ELSE LET resource_fields == FindFields(resource)
             part == filter_parts[part_num]
         IN IF part \notin DOMAIN resource_fields THEN filter_parts
            ELSE LET field == resource_fields[part]
                     renamed == [filter_parts EXCEPT
                                   ![part_num] = ServerField(field, part)]
                 IN RenamePartsOn(IF field.Resource = "" THEN resource
                                  ELSE field.Resource, renamed, part_num + 1)

\* The renaming loop of _add_filter from segment part_num on: stop at the first
\* segment that is no field of the type, rename a field to its server name,
\* and go on with the target type only after a DictResourceField.
RECURSIVE RenameParts(_, _, _)
RenameParts(resource, filter_parts, part_num) ==
    IF part_num > Len(filter_parts) THEN filter_parts
    ELSE LET resource_fields == FindFields(resource)
             part == filter_parts[part_num]
         IN IF part \notin DOMAIN resource_fields THEN filter_parts
            ELSE LET field == resource_fields[part]
                     renamed == [filter_parts EXCEPT
                                   ![part_num] = ServerField(field, part)]
                 IN IF field.Resource = "" THEN renamed
                    ELSE RenameParts(field.Resource, renamed, part_num + 1)

\* the key under which _add_filter stores the value of keyword key
ServerKey(resource, key) == JoinKey(RenameParts(resource, Split(key), 1))

\* the keywords with their keys renamed
Renamed(resource, kwargs) ==
    [j \in 1..Len(kwargs) |-> KV(ServerKey(resource, kwargs[j].k), kwargs[j].v)]

\* _add_filter that keeps the last value of a key whatever the query method
AddOneLast(fm, method, k, v) ==
    IF method = "GET"
    THEN [fm |-> MapPut(fm, k, ListOf(<<v>>)), err |-> "ok"]
    ELSE IF method = "POST"
         THEN [fm |-> MapPut(fm, k, Raw(v)), err |-> "ok"]
         ELSE [fm |-> fm, err |-> "NotImplementedError"]

\* ResolweQuery._add_filter, one key: GET appends to the key's list, POST
\* overwrites the key; v is the value as encoded.  (The keys used here carry
\* no server-side rename.)
AddOne(fm, method, k, v) ==
    IF method = "GET"
    THEN IF k \notin DOMAIN fm
         THEN [fm |-> MapPut(fm, k, ListOf(<<v>>)), err |-> "ok"]
         ELSE IF fm[k].list
              THEN [fm |-> MapPut(fm, k, ListOf(Append(fm[k].vals, v))), err |-> "ok"]
              ELSE [fm |-> fm, err |-> "AttributeError"]
    ELSE IF method = "POST"
         THEN [fm |-> MapPut(fm, k, Raw(v)), err |-> "ok"]
         ELSE [fm |-> fm, err |-> "NotImplementedError"]

\* _add_filter that stops after the first key of the dict
AddFromFirst(fm, method, kwargs, j) ==
    IF j > Len(kwargs) \/ j > 1 THEN [fm |-> fm, err |-> "ok"]
    ELSE AddOne(fm, method, kwargs[j].k, kwargs[j].v)

RECURSIVE AddFrom(_, _, _, _)
AddFrom(fm, method, kwargs, j) ==
    IF j > Len(kwargs) THEN [fm |-> fm, err |-> "ok"]
    ELSE LET one == AddOne(fm, method, kwargs[j].k, EncodeValue(kwargs[j].v))
         IN IF one.err # "ok" THEN one
            ELSE AddFrom(one.fm, method, kwargs, j + 1)

\* ResolweQuery._add_filter on query q, whose filter map lives at q.filters
AddFilter(h, q, kwargs) ==
    LET done == AddFrom(h[q.filters], QueryMethod(q.resource),
                        Renamed(q.resource, kwargs), 1)
    IN [h |-> [h EXCEPT ![q.filters] = done.fm], err |-> done.err]

\* ResolweQuery._compose_filters: writes the pagination keys into the query's
\* own filter map and returns a dict copy of it.
ComposeFilters(fm, q) ==
    LET f1 == IF q.limit.some THEN MapPut(fm, "limit", Raw(IntV(q.limit.v))) ELSE fm
    IN IF q.offset.some THEN MapPut(f1, "offset", Raw(IntV(q.offset.v))) ELSE f1

\* _fetch without the "already fetched" return
FetchAlways(h, q, srv) ==
    LET req == ComposeFilters(h[q.filters], q)
        resp == ServerResponse(q.resource, srv, req)
    IN [h |-> [h EXCEPT ![q.filters] = req],
        q |-> [q EXCEPT !.cache = Cached(resp.results), !.count = Some(resp.count)],
        reqs |-> <<req>>]

\* ResolweQuery._fetch
Fetch(h, q, srv) ==
    IF q.cache.some
    THEN [h |-> h, q |-> q, reqs |-> <<>>]
    ELSE LET Store(req) ==
                 LET Keep(resp) ==
                         LET c1 == IF resp.envelope THEN Some(resp.count) ELSE q.count
                             c2 == IF ~q.limit.some THEN Some(Len(resp.results)) ELSE c1
                         IN [h |-> [h EXCEPT ![q.filters] = req],
                             q |-> [q EXCEPT !.cache = Cached(resp.results), !.count = c2],
                             reqs |-> <<req>>]
                 IN Bind(ServerResponse(q.resource, srv, req), Keep)
         IN Bind(ComposeFilters(h[q.filters], q), Store)

\* ------------------------------------------------------------ the call record
\* A subscript: an int, or a slice start:stop:step
IntIndex(n) == [slice |-> FALSE, n |-> n, start |-> None, stop |-> None, step |-> None]
SliceIndex(a, b, st) == [slice |-> TRUE, n |-> 0, start |-> a, stop |-> b, step |-> st]

\* The arguments of a get(): positional ones and keyword ones
Call(args, kwargs) == [args |-> args, kwargs |-> kwargs]

\* The call just made: the operation, its receiver, what it raised ("ok" when
\* it returned), the list requests it sent, what it returned, and the subscript
\* or the get() arguments it was given.
Outcome(op, recv, result, reqs, kind, ret, val, newq) ==
    [op |-> op, recv |-> recv, result |-> result, reqs |-> reqs,
     kind |-> kind, ret |-> ret, val |-> val, newq |-> newq,
     idx |-> IntIndex(0), call |-> Call(<<>>, <<>>)]

Subscripted(idx, o) == [o EXCEPT !.idx = idx]
Called(args, kwargs, o) == [o EXCEPT !.call = Call(args, kwargs)]

NoCall == Outcome("none", 0, "ok", <<>>, "none", <<>>, 0, 0)

\* Resolwe._initialize_queries: the endpoint's query of a resource type, built
\* with the type's slug field, before any call.
\* No generator has been made.
NoGen ==
    [pc |-> "none", recv |-> 0, chunk_size |-> 0, count |-> 0, min_id |-> 0,
     obj_count |-> 0, buf |-> <<>>, fm |-> EmptyMap, out |-> <<>>]

InitOf(types) ==
    /\ server = ObjIds
    /\ fmaps = <<EmptyMap>>
    /\ \E r \in types : queries = <<NewQuery(r, SlugFieldOf(r), 1)>>
    /\ last = NoCall
    /\ gen = NoGen
    /\ minted = NumObjects
    /\ ent = NoEntity
    /\ vq = NoValues

\* a step that is no step of a generator and no change of the server's ids
NoIteration == UNCHANGED <<gen, minted, ent, vq>>

Receivers == 1..Len(queries)

\* the operations that read a query's results
Reads == {"__iter__", "__repr__"}

\* ResolweQuery.all
All(i, cap) ==
    /\ Len(queries) < cap
    /\ LET c == Clone(fmaps, queries[i])
       IN /\ fmaps' = c.h
          /\ queries' = Append(queries, c.q)
          /\ last' = Outcome("all", i, "ok", <<>>, "query", <<>>, 0, Len(queries) + 1)
    /\ UNCHANGED server

\* ResolweQuery.filter as a function of the heap and the receiver: the heap
\* after the call and the query returned
FilterCall(h, q, kwargs) ==
    LET c == Clone(h, q)
        a == AddFilter(c.h, c.q, kwargs)
    IN [err |-> a.err,
        h |-> IF a.err = "ok" THEN a.h ELSE Release(a.h, Len(h)),
        q |-> c.q]

\* ResolweQuery.filter
Filter(i, kwargs, cap) ==
    /\ Len(queries) < cap
    /\ LET c == Clone(fmaps, queries[i])
           a == AddFilter(c.h, c.q, kwargs)
       IN IF a.err = "ok"
          THEN /\ fmaps' = a.h
               /\ queries' = Append(queries, c.q)
               /\ last' = Outcome("filter", i, "ok", <<>>, "query", <<>>, 0,
                                  Len(queries) + 1)
          ELSE /\ fmaps' = Release(a.h, Len(fmaps))
               /\ queries' = queries
               /\ last' = Outcome("filter", i, a.err, <<>>, "none", <<>>, 0, 0)
    /\ UNCHANGED server

\* ResolweQuery.search
Search(i, text, cap) ==
    /\ Len(queries) < cap
    /\ LET q == queries[i]
           c == Clone(fmaps, q)
           a == AddFilter(c.h, c.q, <<KV(FullSearchParameter(q.resource), StrV(text))>>)
       IN IF FullSearchParameter(q.resource) = ""
          THEN /\ UNCHANGED <<fmaps, queries>>
               /\ last' = Outcome("search", i, "NotImplementedError", <<>>, "none",
                                  <<>>, 0, 0)
          ELSE IF a.err = "ok"
          THEN /\ fmaps' = a.h
               /\ queries' = Append(queries, c.q)
               /\ last' = Outcome("search", i, "ok", <<>>, "query", <<>>, 0,
                                  Len(queries) + 1)
          ELSE /\ fmaps' = Release(a.h, Len(fmaps))
               /\ queries' = queries
               /\ last' = Outcome("search", i, a.err, <<>>, "none", <<>>, 0, 0)
    /\ UNCHANGED server

\* ResolweQuery.__iter__ and ResolweQuery.__repr__: _fetch, then read the cache
Read(i, how) ==
    /\ LET f == Fetch(fmaps, queries[i], server)
       IN /\ fmaps' = f.h
          /\ queries' = [queries EXCEPT ![i] = f.q]
          /\ last' = Outcome(how, i, "ok", f.reqs, "list", f.q.cache.v, 0, 0)
    /\ UNCHANGED server

\* ResolweQuery.clear_cache
ClearCache(i) ==
    /\ queries' = [queries EXCEPT ![i].cache = NoCache, ![i].count = None]
    /\ last' = Outcome("clear_cache", i, "ok", <<>>, "none", <<>>, 0, 0)
    /\ UNCHANGED <<server, fmaps>>

\* ResolweQuery.count, its last lines: the number reported from _count
CountValue(q) ==
    IF ~q.limit.some
    THEN [err |-> "ok", val |-> q.count.v]
    ELSE IF ~q.count.some \/ ~q.offset.some
         THEN [err |-> "TypeError", val |-> 0]
         ELSE [err |-> "ok", val |-> Max(0, Min(q.limit.v, q.count.v - q.offset.v))]

\* ResolweQuery.count (and __len__) on query q: probe with a clone when _count
\* is unknown, then report
CountCall(h, q, srv) ==
    LET c == Clone(h, q)
        Report(f) ==
            LET q1 == IF q.count.some THEN q ELSE [q EXCEPT !.count = f.q.count]
                cv == CountValue(q1)
            IN [h |-> IF q.count.some THEN h ELSE Release(f.h, Len(h)),
                q |-> q1,
                reqs |-> IF q.count.some THEN <<>> ELSE f.reqs,
                err |-> cv.err, val |-> cv.val]
    IN Bind(Fetch(c.h, [c.q EXCEPT !.offset = Some(0), !.limit = Some(1)], srv), Report)

Count(i) ==
    /\ LET n == CountCall(fmaps, queries[i], server)
       IN /\ fmaps' = n.h
          /\ queries' = [queries EXCEPT ![i] = n.q]
          /\ last' = Outcome("count", i, n.err, n.reqs, "int", <<>>, n.val, 0)
    /\ UNCHANGED server

\* obj.delete(force=True) on each entity in turn: a DELETE request per entity,
\* refused by the server for an object it no longer holds
RECURSIVE DeleteEach(_, _, _)
DeleteEach(srv, ids, j) ==
    IF j > Len(ids) THEN [srv |-> srv, err |-> "ok", done |-> Len(ids)]
    ELSE IF ids[j] \notin srv
         THEN [srv |-> srv, err |-> "HttpNotFoundError", done |-> j - 1]
         ELSE DeleteEach(srv \ {ids[j]}, ids, j + 1)

\* str.strip() and str.lower() on what the user typed, a sequence of characters
Whitespace == {" ", "\t", "\n"}

RECURSIVE LStrip(_)
LStrip(s) == IF s # <<>> /\ Head(s) \in Whitespace THEN LStrip(Tail(s)) ELSE s

RECURSIVE RStrip(_)
RStrip(s) ==
    IF s # <<>> /\ s[Len(s)] \in Whitespace THEN RStrip(SubSeq(s, 1, Len(s) - 1)) ELSE s

Strip(s) == RStrip(LStrip(s))

Lower(s) ==
    [j \in 1..Len(s) |->
        CASE s[j] = "Y" -> "y"
          [] s[j] = "N" -> "n"
          [] s[j] = "E" -> "e"
          [] s[j] = "S" -> "s"
          [] OTHER -> s[j]]

\* a confirmation that takes the answer as typed
ConfirmsExactly(user_input) == user_input = <<"y">>

\* not (user_input.strip().lower() != "y")
Confirms(user_input) == Lower(Strip(user_input)) = <<"y">>

\* ResolweQuery.delete(force): unless force is True the user is shown the count
\* and asked; user_input is what is typed at the prompt
Delete(i, force, user_input) ==
    LET q == queries[i]
        n == IF force
             THEN [h |-> fmaps, q |-> q, reqs |-> <<>>, err |-> "ok", val |-> 0]
             ELSE CountCall(fmaps, q, server)
        f == Fetch(n.h, n.q, server)
        d == DeleteEach(server, f.q.cache.v, 1)
    IN IF n.err # "ok" \/ (~force /\ ~Confirms(user_input))
       THEN /\ fmaps' = n.h
            /\ queries' = [queries EXCEPT ![i] = n.q]
            /\ last' = Outcome("delete", i, n.err, n.reqs, "none", <<>>, 0, 0)
            /\ UNCHANGED server
       ELSE /\ fmaps' = f.h
            /\ server' = d.srv
            /\ queries' = [queries EXCEPT ![i] =
                              IF d.err = "ok"
                              THEN [f.q EXCEPT !.cache = NoCache, !.count = None]
                              ELSE f.q]
            /\ last' = Outcome("delete", i, d.err, n.reqs \o f.reqs, "none",
                               f.q.cache.v, d.done, 0)

\* the checks without the one on a slice's stop
CheckIndexNoStop(idx) ==
    IF \/ (~idx.slice /\ idx.n < 0)
       \/ (idx.slice /\ idx.start.some /\ idx.start.v < 0)
    THEN "ValueError: Negative indexing is not supported."
    ELSE IF idx.slice /\ idx.step.some
         THEN "ValueError: step parameter in slice is not supported"
         ELSE "ok"

\* ResolweQuery.__getitem__, the checks made before anything else
CheckIndex(idx) ==
    IF \/ (~idx.slice /\ idx.n < 0)
       \/ (idx.slice /\ idx.start.some /\ idx.start.v < 0)
       \/ (idx.slice /\ idx.stop.some /\ idx.stop.v < 0)
    THEN "ValueError: Negative indexing is not supported."
    ELSE IF idx.slice /\ idx.step.some
         THEN "ValueError: step parameter in slice is not supported"
         ELSE "ok"

\* Python's truth value of an Optional[int]
Truthy(o) == o.some /\ o.v # 0

\* list[start:stop] for non-negative bounds
ListSlice(l, idx) ==
    LET a == IF idx.start.some THEN idx.start.v ELSE 0
        b == IF idx.stop.some THEN Min(idx.stop.v, Len(l)) ELSE Len(l)
    IN IF a + 1 > b THEN <<>> ELSE SubSeq(l, a + 1, b)

\* the guard of "You cannot slice already sliced query."
AlreadySliced(q) == Truthy(q.offset) \/ Truthy(q.limit)

\* the slice branch with the stop taken for the limit
SliceQueryStop(nq, idx) ==
    LET start == IF idx.start.some THEN idx.start.v ELSE 0
        stop == IF idx.stop.some THEN idx.stop.v ELSE BigStop
    IN [nq EXCEPT !.offset = Some(start), !.limit = Some(stop)]

\* the slice branch: offset = start, limit = stop - start on the clone
SliceQuery(nq, idx) ==
    LET start == IF idx.start.some THEN idx.start.v ELSE 0
        stop == IF idx.stop.some THEN idx.stop.v ELSE BigStop
    IN [nq EXCEPT !.offset = Some(start), !.limit = Some(stop - start)]

\* the int branch that counts the index from the start of the collection
PointQueryFromZero(q, nq, n) ==
    [nq EXCEPT !.offset = Some(n), !.limit = Some(1)]

\* the int branch: offset = self._offset + index (or index), limit = 1 on the clone
PointQuery(q, nq, n) ==
    [nq EXCEPT !.offset = Some(IF Truthy(q.offset) THEN q.offset.v + n ELSE n),
               !.limit = Some(1)]

\* ResolweQuery.__getitem__
GetItem(i, idx, cap) ==
    /\ LET q == queries[i]
           chk == CheckIndex(idx)
           c == Clone(fmaps, q)
           f == Fetch(c.h, PointQuery(q, c.q, idx.n), server)
       IN IF chk # "ok"
          THEN /\ UNCHANGED <<fmaps, queries>>
               /\ last' = Subscripted(idx, Outcome("getitem", i, chk, <<>>, "none", <<>>, 0, 0))
          ELSE IF q.cache.some
          THEN /\ UNCHANGED <<fmaps, queries>>
               /\ last' =
                    IF idx.slice
                    THEN Subscripted(idx, Outcome("getitem", i, "ok", <<>>, "list",
                                 ListSlice(q.cache.v, idx), 0, 0))
                    ELSE IF idx.n < Len(q.cache.v)
                    THEN Subscripted(idx, Outcome("getitem", i, "ok", <<>>, "entity",
                                 <<q.cache.v[idx.n + 1]>>, 0, 0))
                    ELSE Subscripted(idx, Outcome("getitem", i, "IndexError: list index out of range",
                                 <<>>, "none", <<>>, 0, 0))
          ELSE IF idx.slice
          THEN IF AlreadySliced(q)
               THEN /\ UNCHANGED <<fmaps, queries>>
                    /\ last' = Subscripted(idx, Outcome("getitem", i,
                                       "NotImplementedError: You cannot slice already sliced query.",
                                       <<>>, "none", <<>>, 0, 0))
               ELSE /\ Len(queries) < cap
                    /\ fmaps' = c.h
                    /\ queries' = Append(queries, SliceQuery(c.q, idx))
                    /\ last' = Subscripted(idx, Outcome("getitem", i, "ok", <<>>, "query", <<>>, 0,
                                       Len(queries) + 1))
          ELSE /\ fmaps' = Release(f.h, Len(fmaps))
               /\ queries' = queries
               /\ last' =
                    IF f.q.cache.v = <<>>
                    THEN Subscripted(idx, Outcome("getitem", i, "IndexError: list index out of range",
                                 f.reqs, "none", <<>>, 0, 0))
                    ELSE Subscripted(idx, Outcome("getitem", i, "ok", f.reqs, "entity",
                                 <<f.q.cache.v[1]>>, 0, 0))
    /\ UNCHANGED server

\* the criteria without the check on positional and keyword arguments together
GetCriteriaLoose(q, args, kwargs) ==
    IF Len(args) > 1
    THEN [err |-> "ValueError: Only one non-keyworded argument can be given",
          kw |-> <<>>]
    ELSE LET k0 == IF Len(args) = 1
                   THEN <<KV(IF args[1].t = "int" THEN "id" ELSE q.slug_field, args[1])>>
                   ELSE kwargs
             k1 == IF Versioned(q.resource)
                   THEN KwSet(k0, "ordering", KwGet(k0, "ordering", StrV("-version")))
                   ELSE k0
         IN [err |-> "ok",
             kw |-> IF q.slug_field \in KwKeys(k0)
                    THEN KwSet(k1, "limit", KwGet(k1, "limit", IntV(1)))
                    ELSE k0]

\* the criteria with limit=1 added to every lookup
GetCriteriaLimited(q, args, kwargs) ==
    IF Len(args) > 1
    THEN [err |-> "ValueError: Only one non-keyworded argument can be given",
          kw |-> <<>>]
    ELSE IF Len(args) = 1 /\ Len(kwargs) > 0
    THEN [err |-> "ValueError: Non-keyworded arguments cannot be combined with keyworded ones.",
          kw |-> <<>>]
    ELSE LET k0 == IF Len(args) = 1
                   THEN <<KV(IF args[1].t = "int" THEN "id" ELSE q.slug_field, args[1])>>
                   ELSE kwargs
             k1 == IF Versioned(q.resource) /\ q.slug_field \in KwKeys(k0)
                   THEN KwSet(k0, "ordering", KwGet(k0, "ordering", StrV("-version")))
                   ELSE k0
         IN [err |-> "ok", kw |-> KwSet(k1, "limit", KwGet(k1, "limit", IntV(1)))]

\* ResolweQuery.get, up to the clone: the criteria the call filters on
GetCriteria(q, args, kwargs) ==
    IF Len(args) > 1
    THEN [err |-> "ValueError: Only one non-keyworded argument can be given",
          kw |-> <<>>]
    ELSE IF Len(args) = 1 /\ Len(kwargs) > 0
    THEN [err |-> "ValueError: Non-keyworded arguments cannot be combined with keyworded ones.",
          kw |-> <<>>]
    ELSE LET k0 == IF Len(args) = 1
                   THEN <<KV(IF args[1].t = "int" THEN "id" ELSE q.slug_field, args[1])>>
                   ELSE kwargs
             k1 == IF Versioned(q.resource)
                   THEN KwSet(k0, "ordering", KwGet(k0, "ordering", StrV("-version")))
                   ELSE k0
         IN [err |-> "ok",
             kw |-> IF q.slug_field \in KwKeys(k0)
                    THEN KwSet(k1, "limit", KwGet(k1, "limit", IntV(1)))
                    ELSE k0]

\* the judgement without the "more than one" error
GetResultFirst(response) ==
    IF response = <<>> THEN "LookupError: Matching object does not exist."
    ELSE "ok"

\* ResolweQuery.get, after the request: the entity or the LookupError
GetResult(response) ==
    IF response = <<>> THEN "LookupError: Matching object does not exist."
    ELSE IF Len(response) > 1 THEN "LookupError: get() returned more than one object."
    ELSE "ok"

\* ResolweQuery.get
Get(i, args, kwargs) ==
    /\ LET q == queries[i]
           crit == GetCriteria(q, args, kwargs)
           c == Clone(fmaps, q)
           a == AddFilter(c.h, c.q, crit.kw)
           f == Fetch(a.h, c.q, server)
           res == GetResult(f.q.cache.v)
       IN IF crit.err # "ok"
          THEN /\ UNCHANGED <<fmaps, queries>>
               /\ last' = Called(args, kwargs, Outcome("get", i, crit.err, <<>>, "none", <<>>, 0, 0))
          ELSE IF a.err # "ok"
          THEN /\ fmaps' = Release(a.h, Len(fmaps))
               /\ queries' = queries
               /\ last' = Called(args, kwargs, Outcome("get", i, a.err, <<>>, "none", <<>>, 0, 0))
          ELSE /\ fmaps' = Release(f.h, Len(fmaps))
               /\ queries' = queries
               /\ last' = IF res = "ok"
                          THEN Called(args, kwargs, Outcome("get", i, "ok", f.reqs, "entity",
                                       <<f.q.cache.v[1]>>, 0, 0))
                          ELSE Called(args, kwargs, Outcome("get", i, res, f.reqs, "none", <<>>, 0, 0))
    /\ UNCHANGED server

\* ------------------------------------------------------------ iterate()
\* ResolweQuery.iterate is a generator function: the call makes the generator
\* object and runs none of the body.
Iterate(i, chunk_size) ==
    /\ gen.pc = "none"
    /\ gen' = [NoGen EXCEPT !.pc = "created", !.recv = i, !.chunk_size = chunk_size]
    /\ last' = Outcome("iterate", i, "ok", <<>>, "generator", <<>>, 0, 0)
    /\ UNCHANGED <<server, fmaps, queries, minted, ent, vq>>

\* the checks at the head of the body
IterateCheck(fm, q) ==
    IF q.limit.some
    THEN "ValueError: Parameter 'limit' should not be used in combination with method iterate."
    ELSE IF q.offset.some
    THEN "ValueError: Parameter 'offset' should not be used in combination with method iterate."
    ELSE IF "ordering" \in DOMAIN fm
    THEN "ValueError: Specifying order in combination with method iterate is not allowed."
    ELSE "ok"

\* The first next(): the body runs from its head through count() and _clone().
IterStart ==
    /\ gen.pc = "created"
    /\ LET q == queries[gen.recv]
           chk == IterateCheck(fmaps[q.filters], q)
       IN IF chk # "ok"
          THEN /\ gen' = [gen EXCEPT !.pc = "raised"]
               /\ last' = Outcome("next", gen.recv, chk, <<>>, "none", <<>>, 0, 0)
               /\ UNCHANGED <<fmaps, queries>>
          ELSE \E n \in {CountCall(fmaps, q, server)} :
               /\ fmaps' = n.h
               /\ queries' = [queries EXCEPT ![gen.recv] = n.q]
               /\ IF n.err # "ok"
                  THEN /\ gen' = [gen EXCEPT !.pc = "raised"]
                       /\ last' = Outcome("next", gen.recv, n.err, n.reqs, "none",
                                          <<>>, 0, 0)
                  ELSE /\ gen' = [gen EXCEPT !.pc = "loop", !.count = n.val,
                                             !.fm = Clone(n.h, n.q).h[Len(n.h) + 1]]
                       /\ last' = Outcome("start", gen.recv, "ok", n.reqs, "int",
                                          <<>>, n.val, 0)
    /\ UNCHANGED <<server, minted, ent, vq>>

\* the chunk request without the id cursor
ChunkFetchNoCursor(g, r, srv) ==
    LET c == Clone(<<g.fm>>, NewQuery(r, "slug", 1))
        ReadChunk(a) ==
            LET f == Fetch(a.h, c.q, srv)
            IN [err |-> a.err,
                reqs |-> IF a.err = "ok" THEN f.reqs ELSE <<>>,
                items |-> IF a.err = "ok" THEN f.q.cache.v ELSE <<>>]
    IN Bind(AddFilter(c.h, c.q, <<KV("limit", IntV(g.chunk_size)),
                                  KV("ordering", StrV("id"))>>), ReadChunk)

\* iterate_query.filter(id__gt=min_id, limit=chunk_size, ordering="id"), read
ChunkFetch(g, r, srv) ==
    LET c == Clone(<<g.fm>>, NewQuery(r, "slug", 1))
        ReadChunk(a) ==
            LET f == Fetch(a.h, c.q, srv)
            IN [err |-> a.err,
                reqs |-> IF a.err = "ok" THEN f.reqs ELSE <<>>,
                items |-> IF a.err = "ok" THEN f.q.cache.v ELSE <<>>]
    IN Bind(AddFilter(c.h, c.q, <<KV("id__gt", IntV(g.min_id)),
                                  KV("limit", IntV(g.chunk_size)),
                                  KV("ordering", StrV("id"))>>), ReadChunk)

\* the yield that leaves min_id as it was
YieldStale(g, items) ==
    [g EXCEPT !.pc = "yielded", !.obj_count = g.obj_count + 1,
              !.buf = Tail(items), !.out = Append(g.out, items[1])]

\* the yield that counts every other item
YieldUncounted(g, items) ==
    [g EXCEPT !.pc = "yielded", !.obj_count = g.obj_count + (Len(g.out) % 2),
              !.min_id = items[1],
              !.buf = Tail(items), !.out = Append(g.out, items[1])]

\* yield obj, after obj_count += 1 and min_id = obj.id
Yield(g, items) ==
    [g EXCEPT !.pc = "yielded", !.obj_count = g.obj_count + 1, !.min_id = items[1],
              !.buf = Tail(items), !.out = Append(g.out, items[1])]

\* The while test and, when it passes, one chunk request and the first yield of
\* its for loop.
IterChunk ==
    /\ gen.pc = "loop"
    /\ \E ch \in {ChunkFetch(gen, queries[gen.recv].resource, server)} :
          IF ~(gen.obj_count < gen.count)
          THEN /\ gen' = [gen EXCEPT !.pc = "done"]
               /\ last' = Outcome("next", gen.recv, "StopIteration", <<>>, "none",
                                  <<>>, 0, 0)
          ELSE IF ch.err # "ok"
          THEN /\ gen' = [gen EXCEPT !.pc = "raised"]
               /\ last' = Outcome("next", gen.recv, ch.err, <<>>, "none", <<>>, 0, 0)
          ELSE IF ch.items = <<>>
          THEN /\ gen' = gen
               /\ last' = Outcome("chunk", gen.recv, "ok", ch.reqs, "none", <<>>, 0, 0)
          ELSE /\ gen' = Yield(gen, ch.items)
               /\ last' = Outcome("next", gen.recv, "ok", ch.reqs, "entity",
                                  <<ch.items[1]>>, 0, 0)
    /\ UNCHANGED <<server, fmaps, queries, minted, ent, vq>>

\* next() on a generator suspended at the yield: the for loop goes on with the
\* chunk it holds, or falls back to the while test.
IterNext ==
    /\ gen.pc = "yielded"
    /\ IF gen.buf = <<>>
       THEN /\ gen' = [gen EXCEPT !.pc = "loop"]
            /\ last' = Outcome("resume", gen.recv, "ok", <<>>, "none", <<>>, 0, 0)
       ELSE /\ gen' = Yield(gen, gen.buf)
            /\ last' = Outcome("next", gen.recv, "ok", <<>>, "entity",
                               <<gen.buf[1]>>, 0, 0)
    /\ UNCHANGED <<server, fmaps, queries, minted, ent, vq>>

\* The server, between two requests: a new object, with an id greater than any
\* it has given, or an object gone.
ServerInsert ==
    /\ minted < NumObjects + MaxInserts
    /\ server' = server \cup {minted + 1}
    /\ minted' = minted + 1
    /\ UNCHANGED <<fmaps, queries, last, gen, ent, vq>>

ServerRemove ==
    /\ \E id \in server : server' = server \ {id}
    /\ UNCHANGED <<fmaps, queries, last, gen, minted, ent, vq>>

\* ------------------------------------------------------------ fields
\* The resource classes with the fields they declare: the TestResource classes
\* of the unit tests (scalar fields, dict fields), Collection, the annotation
\* value of a value query, and Data with the attributes it caches relations in.
EntityTypes == {"TestResource", "Collection"}

FieldNames(type) ==
    CASE type = "TestResource" ->
           {"read_only_scalar", "updatable_scalar", "writable_scalar"}
      [] type = "Collection" ->
           {"descriptor_dirty", "description", "tags", "duplicated", "descriptor",
            "descriptor_schema", "data", "samples", "relations"}
      [] type = "TestDicts" ->
           {"read_only_dict", "update_protected_dict", "first_field"}
      [] type = "AnnotationValue" -> {"field", "sample"}
      [] type = "Data" ->
           {"_children", "_collection", "_descriptor_schema", "_parents",
            "_process", "_sample", "_original_values"}
      [] type = "TestChecks" ->
           {"exists_many_ro", "many_up_ints", "exists_w_int", "plain_w"}
      [] type = "TestConvert" ->
           {"c_plain", "c_plain_many", "c_time", "c_time_many",
            "c_rel", "c_rel_many", "c_idrel", "c_idrel_many"}
      [] OTHER -> {}

\* BaseField.__init__: the defaults of the keyword arguments
BaseField ==
    [access_type |-> "READ_ONLY", many |-> FALSE, allow_null |-> TRUE,
     assert_exists |-> FALSE, typed |-> FALSE, accepted_types |-> {},
     initial_loader |-> FALSE, kind |-> "base", property_name |-> "",
     by_id |-> FALSE]

\* StringField, BooleanField, DictField: BaseField with accepted_types
StringField == [BaseField EXCEPT !.typed = TRUE, !.accepted_types = {"str"}]
BooleanField == [BaseField EXCEPT !.typed = TRUE, !.accepted_types = {"bool"}]
DictField == [BaseField EXCEPT !.typed = TRUE, !.accepted_types = {"dict"}]

\* DateTimeField: its own _to_python_single and _compare
DateTimeField ==
    [BaseField EXCEPT !.typed = TRUE, !.accepted_types = {"datetime"},
                      !.kind = "datetime"]

\* DictResourceField.__init__: no accepted types, the property used as identity
DictResourceField(property_name) ==
    [BaseField EXCEPT !.kind = "resource", !.property_name = property_name]

\* IdResourceField: a DictResourceField with its own to_json
IdResourceField == [DictResourceField("id") EXCEPT !.by_id = TRUE]

\* QueryRelatedField: the related objects of a saved object, loaded on first
\* read
QueryRelatedField ==
    [BaseField EXCEPT !.assert_exists = TRUE, !.initial_loader = TRUE]

\* an attribute that is no field: Data keeps its relations in such
PlainAttribute == [BaseField EXCEPT !.access_type = "WRITABLE", !.kind = "plain"]

\* the field declarations of the classes
FieldDef(f) ==
    CASE f = "read_only_scalar" -> BaseField
      [] f = "c_plain" -> BaseField
      [] f = "c_plain_many" -> [BaseField EXCEPT !.many = TRUE]
      [] f = "c_time" -> DateTimeField
      [] f = "c_time_many" -> [DateTimeField EXCEPT !.many = TRUE]
      [] f = "c_rel" -> DictResourceField("id")
      [] f = "c_rel_many" -> [DictResourceField("id") EXCEPT !.many = TRUE]
      [] f = "c_idrel" -> IdResourceField
      [] f = "c_idrel_many" -> [IdResourceField EXCEPT !.many = TRUE]
      [] f = "updatable_scalar" -> [BaseField EXCEPT !.access_type = "UPDATE_PROTECTED"]
      [] f = "writable_scalar" -> [BaseField EXCEPT !.access_type = "WRITABLE"]
      [] f = "read_only_dict" -> BaseField
      [] f = "update_protected_dict" -> [BaseField EXCEPT !.access_type = "UPDATE_PROTECTED"]
      [] f = "first_field" -> [BaseField EXCEPT !.access_type = "WRITABLE"]
      [] f = "descriptor_dirty" -> BooleanField
      [] f = "duplicated" -> DateTimeField
      [] f = "description" -> [StringField EXCEPT !.access_type = "WRITABLE"]
      [] f = "descriptor" -> [DictField EXCEPT !.access_type = "WRITABLE"]
      [] f = "descriptor_schema" ->
           [DictResourceField("slug") EXCEPT !.access_type = "WRITABLE"]
      [] f = "tags" -> [StringField EXCEPT !.access_type = "WRITABLE", !.many = TRUE]
      [] f \in {"data", "samples", "relations"} -> QueryRelatedField
      [] f \in {"field", "sample"} -> DictResourceField("id")
      [] f = "exists_many_ro" ->
           [BaseField EXCEPT !.assert_exists = TRUE, !.many = TRUE, !.allow_null = FALSE,
                             !.typed = TRUE, !.accepted_types = {"int"}]
      [] f = "many_up_ints" ->
           [BaseField EXCEPT !.access_type = "UPDATE_PROTECTED", !.many = TRUE,
                             !.allow_null = FALSE, !.typed = TRUE,
                             !.accepted_types = {"int"}]
      [] f = "exists_w_int" ->
           [BaseField EXCEPT !.access_type = "WRITABLE", !.assert_exists = TRUE,
                             !.allow_null = FALSE, !.typed = TRUE,
                             !.accepted_types = {"int"}]
      [] f = "plain_w" -> [BaseField EXCEPT !.access_type = "WRITABLE"]
      [] OTHER -> PlainAttribute

\* isinstance(item, accepted_types); a bool is an int
IsInstance(v, types) == v.t \in types \/ (v.t = "bool" /\ "int" \in types)

\* BaseField._check_exists
CheckExists(e, f) ==
    IF FieldDef(f).assert_exists /\ ~e.id.some
    THEN "ValueError: Instance must be saved"
    ELSE "ok"

\* BaseField._check_many
CheckMany(f, v) ==
    IF FieldDef(f).many /\ v.t # "null" /\ v.t # "list"
    THEN "ValueError: must be list"
    ELSE "ok"

\* _check_writeable that lets an update-protected field be set at any time
CheckWriteableLax(e, f) ==
    LET from_server == e.source = "SERVER"
    IN IF ~from_server /\ FieldDef(f).access_type = "READ_ONLY"
       THEN "AttributeError: is read only"
       ELSE "ok"

\* _check_writeable that goes by the source the entity was constructed from
CheckWriteableByOrigin(e, f) ==
    LET created == e.id.some
        from_server == e.origin = "SERVER"
    IN IF from_server THEN "ok"
       ELSE IF FieldDef(f).access_type = "READ_ONLY"
       THEN "AttributeError: is read only"
       ELSE IF FieldDef(f).access_type = "UPDATE_PROTECTED" /\ created
       THEN "AttributeError: is update protected"
       ELSE "ok"

\* BaseField._check_writeable
CheckWriteable(e, f) ==
    LET created == e.id.some
        from_server == e.source = "SERVER"
        Check(access_type) ==
            IF from_server THEN "ok"
            ELSE IF access_type = "READ_ONLY"
            THEN "AttributeError: is read only"
            ELSE IF access_type = "UPDATE_PROTECTED" /\ created
            THEN "AttributeError: is update protected"
            ELSE "ok"
    IN Check(FieldDef(f).access_type)

\* BaseField._check_allow_null
CheckAllowNull(f, v) ==
    IF ~FieldDef(f).allow_null /\ v.t = "null"
    THEN "ValueError: does not allow None value"
    ELSE "ok"

\* _check_types that looks at the first item only
CheckTypesFirst(f, v) ==
    IF ~FieldDef(f).typed \/ v.t = "null" THEN "ok"
    ELSE LET items == IF FieldDef(f).many THEN v.items ELSE <<v>>
         IN IF items # <<>> /\ ~IsInstance(items[1], FieldDef(f).accepted_types)
            THEN "ValueError: type"
            ELSE "ok"

\* BaseField._check_types
CheckTypes(f, v) ==
    LET Check(field) ==
            IF ~field.typed \/ v.t = "null" THEN "ok"
            ELSE LET items == IF field.many THEN v.items ELSE <<v>>
                 IN IF \E j \in 1..Len(items) :
                          ~IsInstance(items[j], field.accepted_types)
                    THEN "ValueError: type"
                    ELSE "ok"
    IN Check(FieldDef(f))

\* Checks called one after the other: the first that raises ends the call.
FirstRaised(results) ==
    IF \A j \in 1..Len(results) : results[j] = "ok" THEN "ok"
    ELSE results[CHOOSE j \in 1..Len(results) :
                   results[j] # "ok" /\ \A k \in 1..(j - 1) : results[k] = "ok"]

\* the checks with the write check made first
ChecksWriteFirst(e, f, v) ==
    FirstRaised(<<CheckWriteable(e, f), CheckExists(e, f), CheckMany(f, v),
                  CheckAllowNull(f, v), CheckTypes(f, v)>>)

\* BaseField._checks_before_set: the first check that raises
ChecksBeforeSet(e, f, v) ==
    FirstRaised(<<CheckExists(e, f), CheckMany(f, v), CheckWriteable(e, f),
                  CheckAllowNull(f, v), CheckTypes(f, v)>>)

\* BaseField._is_lazy: callable(value)
IsLazy(v) == v.t = "lazy"

\* BaseField.__set__
SetField(e, f, v) ==
    LET Set(chk) ==
            IF chk # "ok"
            THEN [e |-> e, result |-> chk]
            ELSE [e |-> [e EXCEPT !.fields[f].value = v,
                                  !.fields[f].status = IF IsLazy(v) THEN "LAZY" ELSE "SET"],
                  result |-> "ok"]
    IN Set(ChecksBeforeSet(e, f, v))

\* BaseField.reset
Reset(e, f) == [e EXCEPT !.fields[f] = Unset]

\* DateTimeField._to_python_single: datetime.fromisoformat(value)
FromIso(v) ==
    IF v.t = "str" /\ \E stamp \in 1..2 : IsoOf(stamp) = v.s
    THEN [err |-> "ok", v |-> DateF(CHOOSE stamp \in 1..2 : IsoOf(stamp) = v.s)]
    ELSE IF v.t = "str" THEN [err |-> "ValueError: Invalid isoformat string", v |-> NullV]
    ELSE [err |-> "TypeError: fromisoformat: argument must be str", v |-> NullV]

\* DictResourceField._to_python_single: a dict becomes an object of the
\* resource class, any other value is kept
ResourceOf(v) == IF v.t = "dict" THEN ResF(v.n, v.s) ELSE v

\* _to_python_single of the field's class
ToPythonSingle(kind, item) ==
    IF kind = "datetime" THEN FromIso(item)
    ELSE IF kind = "resource" THEN [err |-> "ok", v |-> ResourceOf(item)]
    ELSE [err |-> "ok", v |-> item]

\* [self._to_python_single(item, instance) for item in value]: the first
\* item that raises ends the call
ToPythonEach(kind, items) ==
    LET Gather(each) ==
            IF \A j \in 1..Len(items) : each[j].err = "ok"
            THEN [err |-> "ok", v |-> ListF([j \in 1..Len(items) |-> each[j].v])]
            ELSE [err |-> FirstRaised([j \in 1..Len(items) |-> each[j].err]),
                  v |-> NullV]
    IN Gather([j \in 1..Len(items) |-> ToPythonSingle(kind, items[j])])

\* DictResourceField.to_python: a many field asserts a list, an int becomes a
\* deferred fetch by id, a list of ints that is not empty a query by id__in;
\* then, and for the other classes, BaseField.to_python: None is kept, a many
\* field is checked and converted item by item, a single value converted.
ToPython(f, json) ==
    LET Convert(field, many_checked) ==
            IF field.kind = "resource" /\ field.many /\ json.t # "list"
            THEN [err |-> "AssertionError", v |-> NullV]
            ELSE IF field.kind = "resource" /\ json.t \in {"int", "bool"}
            THEN [err |-> "ok", v |-> LazyF(json.n)]
            ELSE IF /\ field.kind = "resource"
                    /\ json.t = "list"
                    /\ json.items # <<>>
                    /\ \A j \in 1..Len(json.items) : json.items[j].t \in {"int", "bool"}
            THEN [err |-> "ok", v |-> QueryF(json.items)]
            ELSE IF json.t = "null" THEN [err |-> "ok", v |-> NullV]
            ELSE IF field.many
            THEN IF many_checked # "ok"
                 THEN [err |-> many_checked, v |-> NullV]
                 ELSE ToPythonEach(field.kind, json.items)
            ELSE ToPythonSingle(field.kind, json)
    IN Convert(FieldDef(f), CheckMany(f, json))

\* BaseField._set_server
SetServer(e, f, json) ==
    LET Store(e1, py) ==
            IF py.err # "ok" THEN [e |-> e1, result |-> py.err]
            ELSE SetField(e1, f, py.v)
    IN Store([Reset(e, f) EXCEPT !.fields[f].original = json], ToPython(f, json))

\* original_json.get(property_name)
JsonProperty(json, property_name) ==
    IF json.t # "dict"
    THEN [err |-> "AttributeError: no attribute 'get'", v |-> NullV]
    ELSE IF property_name = "id"
    THEN [err |-> "ok", v |-> IF json.n = 0 THEN NullV ELSE IntF(json.n)]
    ELSE [err |-> "ok", v |-> IF json.s = "" THEN NullV ELSE StrF(json.s)]

\* getattr(current_python, property_name)
ObjectProperty(obj, property_name) ==
    IF obj.t # "resource"
    THEN [err |-> "AttributeError: no attribute " \o property_name, v |-> NullV]
    ELSE IF property_name = "id"
    THEN [err |-> "ok", v |-> IF obj.n = 0 THEN NullV ELSE IntF(obj.n)]
    ELSE [err |-> "ok", v |-> IF obj.s = "" THEN NullV ELSE StrF(obj.s)]

\* _to_json_single of the field's class: isoformat() of a datetime, the dict
\* of the identity property of a related object, the value itself otherwise
ToJsonSingle(f, value) ==
    IF FieldDef(f).kind = "datetime"
    THEN IF value.t = "datetime"
         THEN [err |-> "ok", v |-> StrF(IsoOf(value.n))]
         ELSE [err |-> "AttributeError: no attribute isoformat", v |-> NullV]
    ELSE IF FieldDef(f).kind = "resource"
    THEN LET property == ObjectProperty(value, FieldDef(f).property_name)
         IN IF property.err # "ok" THEN [err |-> property.err, v |-> NullV]
            ELSE [err |-> "ok",
                  v |-> IF FieldDef(f).property_name = "id"
                        THEN RefJ(value.n, "") ELSE RefJ(0, value.s)]
    ELSE [err |-> "ok", v |-> value]

\* value.id and item.id of IdResourceField.to_json
IdOf(value) ==
    IF value.t # "resource"
    THEN [err |-> "AttributeError: no attribute id", v |-> NullV]
    ELSE [err |-> "ok", v |-> IF value.n = 0 THEN NullV ELSE IntF(value.n)]

\* the list comprehension of to_json over value: a value that is no list
\* cannot be iterated, the first item that raises ends the call
ToJsonEach(f, value) ==
    LET items == value.items
        each == [j \in 1..Len(items) |->
                   IF FieldDef(f).by_id THEN IdOf(items[j]) ELSE ToJsonSingle(f, items[j])]
        bad == {j \in 1..Len(items) : each[j].err # "ok"}
    IN IF value.t # "list"
       THEN [err |-> "TypeError: object is not iterable", v |-> NullV]
       ELSE IF bad # {}
       THEN [err |-> each[CHOOSE j \in bad : \A k \in bad : j <= k].err, v |-> NullV]
       ELSE [err |-> "ok", v |-> ListF([j \in 1..Len(items) |-> each[j].v])]

\* BaseField.to_json: None is kept, a many field is converted item by item;
\* IdResourceField.to_json: the ids of the items, or the id of the value,
\* with no test for None
ToJson(f, value) ==
    IF FieldDef(f).by_id
    THEN IF FieldDef(f).many THEN ToJsonEach(f, value) ELSE IdOf(value)
    ELSE IF value.t = "null" THEN [err |-> "ok", v |-> NullV]
    ELSE IF FieldDef(f).many THEN ToJsonEach(f, value)
    ELSE ToJsonSingle(f, value)

\* DictResourceField._compare (of a field that is not many)
CompareResource(f, original_json, current_python) ==
    LET json_id == JsonProperty(original_json, FieldDef(f).property_name)
        python_id == ObjectProperty(current_python, FieldDef(f).property_name)
    IN IF json_id.err # "ok" THEN [err |-> json_id.err, val |-> FALSE]
       ELSE IF python_id.err # "ok" THEN [err |-> python_id.err, val |-> FALSE]
       ELSE [err |-> "ok", val |-> json_id.v = python_id.v]

\* DateTimeField._compare: self.to_python(original_json) leaves out the
\* instance argument of to_python
CompareDateTime(original_json, current_python) ==
    [err |-> "TypeError: to_python() missing 1 required positional argument", val |-> FALSE]

\* _compare of the field's class; BaseField._compare is !=
Compare(f, original_json, current_python) ==
    IF FieldDef(f).kind = "resource" THEN CompareResource(f, original_json, current_python)
    ELSE IF FieldDef(f).kind = "datetime" THEN CompareDateTime(original_json, current_python)
    ELSE [err |-> "ok", val |-> original_json # current_python]

\* changed that tells a created object's fields only
ChangedWhenCreated(e, f) ==
    LET status == e.fields[f].status
        creating == ~e.id.some
    IN IF status = "UNSET" \/ status = "LAZY" \/ creating THEN [err |-> "ok", val |-> FALSE]
       ELSE Compare(f, e.fields[f].original, e.fields[f].value)

\* BaseField.changed
Changed(e, f) ==
    LET status == e.fields[f].status
        creating == ~e.id.some
    IN IF status = "UNSET" \/ status = "LAZY" THEN [err |-> "ok", val |-> FALSE]
       ELSE IF creating /\ FieldDef(f).access_type \in {"WRITABLE", "UPDATE_PROTECTED"}
       THEN [err |-> "ok", val |-> TRUE]
       ELSE Compare(f, e.fields[f].original, e.fields[f].value)

\* What the server holds now of the objects related to the entity: the value
\* a loader or a fetch resolves a relation to.
Fresh(e) == ListF(<<IntF(e.epoch)>>)

\* The slug of the related object with the id given, and the object a fetch
\* by id returns.
RelSlug(id) == IF id = 7 THEN "g" ELSE "h"
FetchObject(id) == ResF(id, RelSlug(id))

\* BaseField._lazy_load: a callable is called, any other value is kept
LazyLoad(v) == IF IsLazy(v) THEN FetchObject(v.n) ELSE v

\* __get__ that loads the initial value again on every read
GetFieldReloading(e, f) ==
    LET initial == FieldDef(f).initial_loader /\ e.id.some
        e1 == IF initial
              THEN [e EXCEPT !.fields[f].value = Fresh(e), !.fields[f].status = "LAZY"]
              ELSE e
        value == e1.fields[f].value
        data == LazyLoad(value)
        e2 == IF e1.fields[f].status = "LAZY"
              THEN [e1 EXCEPT !.fields[f].value = data, !.fields[f].status = "SET",
                              !.fields[f].original =
                                  IF e1.fields[f].original = value THEN data ELSE @]
              ELSE e1
    IN IF CheckExists(e1, f) # "ok"
       THEN [e |-> e1, result |-> CheckExists(e1, f), ret |-> NullV,
             loads |-> IF initial THEN 1 ELSE 0, reqs |-> 0]
       ELSE [e |-> e2, result |-> "ok", ret |-> e2.fields[f].value,
             loads |-> (IF initial THEN 1 ELSE 0)
                       + (IF e1.fields[f].status = "LAZY" /\ IsLazy(value) THEN 1 ELSE 0),
             reqs |-> IF e1.fields[f].status = "LAZY" /\ IsLazy(value) THEN 1 ELSE 0]

\* __get__ that loads the initial value before the object is saved
GetFieldUnsaved(e, f) ==
    LET initial == e.fields[f].status = "UNSET" /\ FieldDef(f).initial_loader
        e1 == IF initial
              THEN [e EXCEPT !.fields[f].value = Fresh(e), !.fields[f].status = "LAZY"]
              ELSE e
    IN [e |-> e1, result |-> CheckExists(e1, f), ret |-> NullV,
        loads |-> IF initial THEN 1 ELSE 0, reqs |-> 0]

\* BaseField.__get__: the initial loader on the first read of a saved object,
\* the existence check, the deferred value called, the value returned. The
\* loader of a related-objects field gives what the server holds.
GetField(e, f) ==
    LET initial == e.fields[f].status = "UNSET" /\ FieldDef(f).initial_loader /\ e.id.some
        e1 == IF initial
              THEN [e EXCEPT !.fields[f].value = Fresh(e), !.fields[f].status = "LAZY"]
              ELSE e
        value == e1.fields[f].value
        data == LazyLoad(value)
        e2 == IF e1.fields[f].status = "LAZY"
              THEN [e1 EXCEPT !.fields[f].value = data, !.fields[f].status = "SET",
                              !.fields[f].original =
                                  IF e1.fields[f].original = value THEN data ELSE @]
              ELSE e1
    IN IF CheckExists(e1, f) # "ok"
       THEN [e |-> e1, result |-> CheckExists(e1, f), ret |-> NullV,
             loads |-> IF initial THEN 1 ELSE 0, reqs |-> 0]
       ELSE [e |-> e2, result |-> "ok", ret |-> e2.fields[f].value,
             loads |-> (IF initial THEN 1 ELSE 0)
                       + (IF e1.fields[f].status = "LAZY" /\ IsLazy(value) THEN 1 ELSE 0),
             reqs |-> IF e1.fields[f].status = "LAZY" /\ IsLazy(value) THEN 1 ELSE 0]

\* The constructor of a resource takes the data given in field by field
\* through _set_server.
RECURSIVE Hydrate(_, _, _)
Hydrate(e, attrs, j) ==
    IF j > Len(attrs) THEN [e |-> e, result |-> "ok"]
    ELSE LET Then(one) ==
                 IF one.result # "ok" THEN one ELSE Hydrate(one.e, attrs, j + 1)
         IN Then(SetServer(e, attrs[j].k, attrs[j].v))

\* A new object of the class, before any data is given to it: the write
\* checks do not apply while it is built.
Blank(type, source) ==
    [type |-> type, source |-> "SERVER", origin |-> source, id |-> None,
     fields |-> [f \in FieldNames(type) |-> Unset], epoch |-> 0, call |-> NoAssign]

\* resource(resolwe, id=..., **attrs, initial_data_source=source): the data is
\* taken in, then the id; once built, the object is the caller's and the source
\* of further values is the user.
Construct(type, source, id, attrs) ==
    /\ ent.type = "none"
    /\ LET h == Hydrate(Blank(type, source), attrs, 1)
       IN IF h.result # "ok"
          THEN ent' = [ent EXCEPT !.call = CallRec("init", type, NullV, h.result, NullV, 0, 0)]
          ELSE ent' = [h.e EXCEPT !.id = id, !.source = "USER",
                                  !.call = CallRec("init", type, NullV, "ok", NullV, 0, 0)]
    /\ UNCHANGED <<server, fmaps, queries, last, gen, minted, vq>>

\* entity.f = v
Assign(f, v) ==
    /\ ent.type # "none"
    /\ f \in FieldNames(ent.type)
    /\ LET set == SetField(ent, f, v)
       IN ent' = [set.e EXCEPT !.call = CallRec("set", f, v, set.result, NullV, 0, 0)]
    /\ UNCHANGED <<server, fmaps, queries, last, gen, minted, vq>>

\* entity.f
GetAttr(f) ==
    /\ ent.type # "none"
    /\ f \in FieldNames(ent.type)
    /\ LET get == GetField(ent, f)
       IN ent' = [get.e EXCEPT !.call = CallRec("get", f, NullV, get.result, get.ret,
                                                get.loads, get.reqs)]
    /\ UNCHANGED <<server, fmaps, queries, last, gen, minted, vq>>

\* entity.f["change"] = ...: the dict the field holds is changed in place
Mutate(f) ==
    /\ ent.type # "none"
    /\ f \in FieldNames(ent.type)
    /\ ent.fields[f].status = "SET"
    /\ ent.fields[f].value.t = "dict"
    /\ ent.fields[f].value.n = 0
    /\ ent' = [ent EXCEPT !.fields[f].value = DictF(<<StrF("change")>>),
                          !.call = CallRec("mutate", f, NullV, "ok", NullV, 0, 0)]
    /\ UNCHANGED <<server, fmaps, queries, last, gen, minted, vq>>

\* field.changed(entity), as save() asks of each field
IsChanged(f) ==
    /\ ent.type # "none"
    /\ f \in FieldNames(ent.type)
    /\ LET c == Changed(ent, f)
       IN ent' = [ent EXCEPT !.call = CallRec("changed", f, NullV, c.err, BoolF(c.val), 0, 0)]
    /\ UNCHANGED <<server, fmaps, queries, last, gen, minted, vq>>

\* field.to_json(value), as save() and the payload of a request call it
ToJsonCall(f, value) ==
    /\ ent.type # "none"
    /\ f \in FieldNames(ent.type)
    /\ LET json == ToJson(f, value)
       IN ent' = [ent EXCEPT !.call = CallRec("to_json", f, value, json.err, json.v, 0, 0)]
    /\ UNCHANGED <<server, fmaps, queries, last, gen, minted, vq>>

\* field.to_python(value, entity), as _set_server calls it
ToPythonCall(f, json) ==
    /\ ent.type # "none"
    /\ f \in FieldNames(ent.type)
    /\ LET py == ToPython(f, json)
       IN ent' = [ent EXCEPT !.call = CallRec("to_python", f, json, py.err, py.v, 0, 0)]
    /\ UNCHANGED <<server, fmaps, queries, last, gen, minted, vq>>

\* ------------------------------------------------------------ save
\* a sequence that holds each member of the set once
SeqOfSet(S) ==
    CHOOSE s \in [1..Cardinality(S) -> S] : \A x \in S : \E j \in 1..Cardinality(S) : s[j] = x

\* The fields save() must not send: a READ_ONLY field that changed, and on a
\* created object an UPDATE_PROTECTED field that changed.
Offending(e) ==
    {f \in FieldNames(e.type) :
        /\ Changed(e, f).val
        /\ \/ FieldDef(f).access_type = "READ_ONLY"
           \/ FieldDef(f).access_type = "UPDATE_PROTECTED" /\ e.id.some}

\* The fields save() sends: on create the WRITABLE and UPDATE_PROTECTED fields
\* that changed, on update the WRITABLE ones.
Payload(e) ==
    {f \in FieldNames(e.type) :
        /\ Changed(e, f).val
        /\ FieldDef(f).access_type \in
              (IF e.id.some THEN {"WRITABLE"} ELSE {"WRITABLE", "UPDATE_PROTECTED"})}

\* The server's echo of a save: the fields the object holds, as stored.
Echo(e) ==
    LET held == SeqOfSet({f \in FieldNames(e.type) : e.fields[f].status = "SET"})
    IN [j \in 1..Len(held) |-> KV(held[j], e.fields[held[j]].value)]

\* entity.save() on an entity of plain fields; answer is what the server does
\* with the request. The offending fields are named in the error and nothing
\* is sent; else the create or update call is made and the fields are taken
\* again from the response.
Save(answer) ==
    /\ ent.type # "none"
    /\ \A f \in FieldNames(ent.type) : FieldDef(f).kind = "base"
    /\ LET offending == Offending(ent)
           names == SeqOfSet(offending)
       IN IF offending # {}
          THEN ent' = [ent EXCEPT !.call =
                         CallRec("save", "", NullV, "ValueError: Not allowed to change fields",
                                 ListF([j \in 1..Len(names) |-> StrF(names[j])]), 0, 0)]
          ELSE IF answer # "ok"
          THEN ent' = [ent EXCEPT !.call = CallRec("save", "", NullV, answer, NullV, 0, 1)]
          ELSE LET method == IF ent.id.some THEN "patch" ELSE "post"
                   sent == SeqOfSet(Payload(ent))
                   h == Hydrate([ent EXCEPT !.source = "SERVER"], Echo(ent), 1)
               IN ent' = [h.e EXCEPT !.id = Some(1), !.source = "USER",
                                     !.call = CallRec("save", method, NullV, h.result,
                                                      ListF([j \in 1..Len(sent) |-> StrF(sent[j])]),
                                                      0, 1)]
    /\ UNCHANGED <<server, fmaps, queries, last, gen, minted, vq>>

\* ------------------------------------------------------------ update
\* The attributes an entity keeps the server's related objects in.
RelationCaches(type) ==
    IF type = "Collection" THEN {"data", "samples", "relations"}
    ELSE IF type = "Data"
    THEN {"_children", "_collection", "_descriptor_schema", "_parents", "_process", "_sample"}
    ELSE {}

\* self.<attribute> = None, on each attribute given
RECURSIVE SetNone(_, _)
SetNone(e, attributes) ==
    IF attributes = {} THEN e
    ELSE LET f == CHOOSE x \in attributes : TRUE
         IN SetNone([e EXCEPT !.fields[f].value = NullV], attributes \ {f})

\* an update of Data that keeps the parents it holds
ClearCachesButParents(e) ==
    IF e.type = "Data"
    THEN SetNone(e, {"_children", "_collection", "_descriptor_schema", "_process", "_sample"})
    ELSE IF e.type = "Collection" THEN SetNone(e, {"samples", "relations"})
    ELSE e

\* The assignments update() of the class starts with: Data clears its six
\* relation attributes, Collection sets _samples and _relations to None.
ClearCaches(e) ==
    IF e.type = "Data"
    THEN SetNone(e, {"_children", "_collection", "_descriptor_schema", "_parents",
                     "_process", "_sample"})
    ELSE IF e.type = "Collection" THEN SetNone(e, {"samples", "relations"})
    ELSE e

\* What the server answers when asked for the entity: the fields it last sent
\* or was sent, the related objects left out.
ServerPayload(e) ==
    LET held == SeqOfSet({f \in FieldNames(e.type) \ RelationCaches(e.type) :
                             e.fields[f].status # "UNSET"})
    IN [j \in 1..Len(held) |-> KV(held[j], e.fields[held[j]].original)]

\* every field of the set given is reset
RECURSIVE ResetAll(_, _)
ResetAll(e, names) ==
    IF names = {} THEN e
    ELSE LET f == CHOOSE x \in names : TRUE
         IN ResetAll(Reset(e, f), names \ {f})

\* Data takes the payload in attribute by attribute: the original values are
\* kept, process, collection and descriptor schema are built from the payload,
\* the sample is built from the original values when it is asked for.
DataSync(e) ==
    [e EXCEPT !.fields["_original_values"].value = Fresh(e),
              !.fields["_process"].value = Fresh(e),
              !.fields["_collection"].value = Fresh(e),
              !.fields["_descriptor_schema"].value = Fresh(e),
              !.fields["_sample"].value = NullV]

\* update() of the base class: the entity is fetched by its id, what its
\* fields held is dropped and the fields are taken from the response.
BaseUpdate(e) ==
    IF e.type = "Data" THEN [e |-> DataSync(e), result |-> "ok"]
    ELSE LET h == Hydrate([ResetAll(e, FieldNames(e.type)) EXCEPT !.source = "SERVER"],
                          ServerPayload(e), 1)
         IN [e |-> [h.e EXCEPT !.source = "USER"], result |-> h.result]

\* entity.update(); the call keeps what the relation caches held before it
Update ==
    /\ ent.type \in {"Collection", "Data"}
    /\ ent.id.some
    /\ LET u == BaseUpdate(ClearCaches(ent))
           caches == SeqOfSet(RelationCaches(ent.type))
       IN ent' = [u.e EXCEPT !.call =
                     CallRec("update", "", ListF([j \in 1..Len(caches) |-> ent.fields[caches[j]].value]),
                             u.result, NullV, 0, 1)]
    /\ UNCHANGED <<server, fmaps, queries, last, gen, minted, vq>>

\* The properties of Data: process, descriptor_schema and collection give what
\* is kept, sample is built from the original values when none is kept,
\* parents and children are asked of the server when none are kept.
DataGet(e, f) ==
    IF f \in {"_parents", "_children"}
    THEN IF ~e.id.some
         THEN [e |-> e, result |-> "ValueError: Instance must be saved", ret |-> NullV,
               loads |-> 0, reqs |-> 0]
         ELSE IF e.fields[f].value = NullV
         THEN [e |-> [e EXCEPT !.fields[f].value = Fresh(e)], result |-> "ok",
               ret |-> Fresh(e), loads |-> 1, reqs |-> 1]
         ELSE [e |-> e, result |-> "ok", ret |-> e.fields[f].value, loads |-> 0, reqs |-> 0]
    ELSE IF f = "_sample" /\ e.fields[f].value = NullV
                          /\ e.fields["_original_values"].value # NullV
    THEN [e |-> [e EXCEPT !.fields[f].value = e.fields["_original_values"].value],
          result |-> "ok", ret |-> e.fields["_original_values"].value, loads |-> 1, reqs |-> 0]
    ELSE [e |-> e, result |-> "ok", ret |-> e.fields[f].value, loads |-> 0, reqs |-> 0]

\* data.parents, data.sample and the like
DataRead(f) ==
    /\ ent.type = "Data"
    /\ f \in RelationCaches("Data")
    /\ LET get == DataGet(ent, f)
       IN ent' = [get.e EXCEPT !.call = CallRec("get", f, NullV, get.result, get.ret,
                                                get.loads, get.reqs)]
    /\ UNCHANGED <<server, fmaps, queries, last, gen, minted, vq>>

\* Data(resolwe, **payload), as a query builds it from the server's answer
ConstructData(id) ==
    /\ ent.type = "none"
    /\ ent' = [DataSync([Blank("Data", "SERVER") EXCEPT !.id = id])
                 EXCEPT !.source = "USER", !.call = CallRec("init", "Data", NullV, "ok", NullV, 0, 0)]
    /\ UNCHANGED <<server, fmaps, queries, last, gen, minted, vq>>

\* The related objects of the entity change on the server.
ServerTouch ==
    /\ ent.type # "none"
    /\ ent.epoch < MaxEpoch
    /\ ent' = [ent EXCEPT !.epoch = @ + 1]
    /\ UNCHANGED <<server, fmaps, queries, last, gen, minted, vq>>

\* collection._id = None: the entity is no longer a saved one
ForgetId ==
    /\ ent.type # "none"
    /\ ent.id.some
    /\ ent' = [ent EXCEPT !.id = None, !.call = CallRec("forget", "", NullV, "ok", NullV, 0, 0)]
    /\ UNCHANGED <<server, fmaps, queries, last, gen, minted, vq>>

\* ------------------------------------------------------------ value queries
\* A request of a value query: the endpoint asked, what for (the page of
\* values, the count of a bulk query, a chunk of it) and the ids it names.
Request(endpoint, what, ids, min_id) ==
    [endpoint |-> endpoint, what |-> what, ids |-> ids, min_id |-> min_id]

\* ResolweQuery._populate_resource on the j-th item of the page
ValueOf(item, j) ==
    [Hydrate(Blank("AnnotationValue", "SERVER"),
             <<KV("field", item.field), KV("sample", item.sample)>>, 1).e
        EXCEPT !.id = Some(j), !.source = "USER"]

\* the ids, ascending, of the set given that are above min_id, limit at most
RECURSIVE ChunkOf(_, _, _)
ChunkOf(ids, min_id, limit) ==
    LET above == {n \in ids : n > min_id}
    IN IF above = {} \/ limit = 0 THEN <<>>
       ELSE LET first == CHOOSE n \in above : \A m \in above : n <= m
            IN <<first>> \o ChunkOf(ids, first, limit - 1)

\* The while loop of ResolweQuery.iterate on the bulk query filter(id__in=ids),
\* found being the ids of it the server holds: a chunk request, its objects
\* taken, until obj_count reaches count.
RECURSIVE IterateLoop(_, _, _, _, _, _)
IterateLoop(endpoint, ids, found, count, min_id, obj_count) ==
    IF ~(obj_count < count) THEN [objs |-> <<>>, reqs |-> <<>>]
    ELSE LET chunk == ChunkOf(found, min_id, DefaultChunkSize)
             rest == IterateLoop(endpoint, ids, found, count,
                                 chunk[Len(chunk)], obj_count + Len(chunk))
         IN [objs |-> chunk \o rest.objs,
             reqs |-> <<Request(endpoint, "chunk", ids, min_id)>> \o rest.reqs]

\* a bulk query that is sent without asking the count first
BulkQueryUncounted(endpoint, ids, rels) ==
    LET found == ids \cap rels
        loop == IterateLoop(endpoint, ids, found, Cardinality(found), 0, 0)
    IN [objs |-> loop.objs, reqs |-> loop.reqs]

\* self.resolwe.<endpoint>.filter(id__in=ids).iterate(), read to its end:
\* count() asks the server once, then the loop
BulkQuery(endpoint, ids, rels) ==
    LET found == ids \cap rels
        loop == IterateLoop(endpoint, ids, found, Cardinality(found), 0, 0)
    IN [objs |-> loop.objs,
        reqs |-> <<Request(endpoint, "count", ids, 0)>> \o loop.reqs]

\* The values of the cache whose field f is LAZY, by the id they wait for
Missing(cache, f) ==
    {cache[j].fields[f].original.n : j \in {i \in 1..Len(cache) : cache[i].fields[f].status = "LAZY"}}

\* for each object of the bulk query, each value waiting for its id gets it as
\* value and as original, with status SET
Attach(cache, f, objs) ==
    [j \in 1..Len(cache) |->
        IF /\ cache[j].fields[f].status = "LAZY"
           /\ \E k \in 1..Len(objs) : objs[k] = cache[j].fields[f].original.n
        THEN [cache[j] EXCEPT !.fields[f] =
                 [value |-> FetchObject(cache[j].fields[f].original.n),
                  original |-> FetchObject(cache[j].fields[f].original.n),
                  status |-> "SET"]]
        ELSE cache[j]]

\* AnnotationValueQuery._fetch: the base request unless the cache is there,
\* then one bulk query for the fields and one for the samples the values lack
ValueFetch ==
    /\ vq.page # <<>>
    /\ LET base == IF vq.fetched THEN <<>>
                   ELSE <<Request("annotation_value", "page", {}, 0)>>
           cache0 == IF vq.fetched THEN vq.cache
                     ELSE [j \in 1..Len(vq.page) |-> ValueOf(vq.page[j], j)]
           missing_fields == Missing(cache0, "field")
           missing_samples == Missing(cache0, "sample")
           fields == IF missing_fields = {} THEN [objs |-> <<>>, reqs |-> <<>>]
                     ELSE BulkQuery("annotation_field", missing_fields, vq.rels)
           samples == IF missing_samples = {} THEN [objs |-> <<>>, reqs |-> <<>>]
                      ELSE BulkQuery("sample", missing_samples, vq.rels)
           cache1 == Attach(cache0, "field", fields.objs)
           cache2 == Attach(cache1, "sample", samples.objs)
       IN vq' = [vq EXCEPT !.fetched = TRUE, !.cache = cache2,
                           !.call = [op |-> "fetch", i |-> 0, field |-> "", result |-> "ok",
                                     ret |-> NullV, loads |-> 0,
                                     reqs |-> base \o fields.reqs \o samples.reqs]]
    /\ UNCHANGED <<server, fmaps, queries, last, gen, minted, ent>>

\* value.f on the i-th value of the cache
ValueRead(i, f) ==
    /\ vq.fetched
    /\ i \in 1..Len(vq.cache)
    /\ LET get == GetField(vq.cache[i], f)
       IN vq' = [vq EXCEPT !.cache[i] = get.e,
                           !.call = [op |-> "get", i |-> i, field |-> f,
                                     result |-> get.result, ret |-> get.ret,
                                     loads |-> get.loads,
                                     reqs |-> IF get.reqs = 0 THEN <<>>
                                              ELSE <<Request(f, "object", {get.ret.n}, 0)>>]]
    /\ UNCHANGED <<server, fmaps, queries, last, gen, minted, ent>>

\* field.changed(value) on the i-th value of the cache
ValueChanged(i, f) ==
    /\ vq.fetched
    /\ i \in 1..Len(vq.cache)
    /\ LET c == Changed(vq.cache[i], f)
       IN vq' = [vq EXCEPT !.call = [op |-> "changed", i |-> i, field |-> f,
                                     result |-> c.err, ret |-> BoolF(c.val),
                                     loads |-> 0, reqs |-> <<>>]]
    /\ UNCHANGED <<server, fmaps, queries, last, gen, minted, ent>>

\* ------------------------------------------------------------ the caller's inputs
LimitTwo == <<KV("limit", IntV(2))>>
ByContributor == <<KV("contributor", IntV(1))>>
FirstOne == SliceIndex(Some(0), Some(1), None)

\* subscripts: every int, one slice that is accepted and the ones that are not
Indices ==
    {IntIndex(n) : n \in -1..MaxIndex}
    \cup { FirstOne,
           SliceIndex(None, None, None),
           SliceIndex(Some(-1), None, None),
           SliceIndex(None, Some(-1), None),
           SliceIndex(Some(0), Some(1), Some(1)),
           SliceIndex(Some(-1), None, Some(1)) }

\* slices without step and with non-negative bounds
SliceBounds == {None} \cup {Some(n) : n \in 0..MaxIndex}
Slices == {SliceIndex(a, b, None) : a \in SliceBounds, b \in SliceBounds}

GetCalls(q) ==
    { Call(<<IntV(1)>>, <<>>), Call(<<IntV(0)>>, <<>>),
      Call(<<StrV("a")>>, <<>>), Call(<<StrV("b")>>, <<>>), Call(<<StrV("c")>>, <<>>),
      Call(<<IntV(1), IntV(2)>>, <<>>),
      Call(<<IntV(1)>>, ByContributor),
      Call(<<StrV("a")>>, ByContributor),
      Call(<<>>, ByContributor),
      Call(<<>>, <<KV("contributor", IntV(2))>>),
      Call(<<>>, <<KV("contributor", IntV(0))>>),
      Call(<<>>, <<KV(SlugFieldOf(q.resource), StrV("a"))>>),
      Call(<<>>, <<KV(SlugFieldOf(q.resource), StrV("a")), KV("limit", IntV(2))>>) }

\* ------------------------------------------------------------ specifications
\* Reading, counting and indexing one type's queries.
Init == InitOf({"data"})

Next ==
    /\ NoIteration
    /\ \E i \in Receivers :
        \/ \E kwargs \in {LimitTwo, ByContributor} : Filter(i, kwargs, MaxQueries)
        \/ \E idx \in Indices : GetItem(i, idx, MaxQueries)
        \/ \E how \in {"__iter__", "__repr__"} : Read(i, how)
        \/ ClearCache(i)
        \/ Count(i)

Spec == Init /\ [][Next]_vars

\* get() on the endpoint's query of each type and on queries derived from it.
InitGet == InitOf(ResourceTypes)

NextGet ==
    /\ NoIteration
    /\ \E i \in Receivers :
        \/ All(i, MaxQueries)
        \/ Filter(i, LimitTwo, MaxQueries)
        \/ Search(i, "a", MaxQueries)
        \/ GetItem(i, FirstOne, MaxQueries)
        \/ Read(i, "__iter__")
        \/ \E call \in GetCalls(queries[i]) : Get(i, call.args, call.kwargs)

SpecGet == InitGet /\ [][NextGet]_vars

\* Slicing a query, before and after it is read.
NextSlice ==
    /\ NoIteration
    /\ \E i \in Receivers :
        \/ \E idx \in Slices : GetItem(i, idx, MaxQueries)
        \/ Read(i, "__iter__")
        \/ ClearCache(i)

SpecSlice == Init /\ [][NextSlice]_vars

\* Subscripting with ints and slices, on the endpoint's query, on filtered
\* queries and on slices, before and after they are executed.
NextPoint ==
    /\ NoIteration
    /\ \E i \in Receivers :
        \/ \E n \in 0..MaxIndex : GetItem(i, IntIndex(n), MaxPoint)
        \/ \E idx \in Slices : GetItem(i, idx, MaxPoint)
        \/ \E kwargs \in {LimitTwo, <<KV("contributor", IntV(2))>>} :
              Filter(i, kwargs, MaxPoint)
        \/ Read(i, "__iter__")

SpecPoint == Init /\ [][NextPoint]_vars

\* Slicing the result of a slice.
NextReslice ==
    /\ NoIteration
    /\ \E i \in Receivers :
        \/ \E idx \in {FirstOne, SliceIndex(Some(0), Some(0), None)} :
              GetItem(i, idx, MaxShared)
        \/ Read(i, "__iter__")

SpecReslice == Init /\ [][NextReslice]_vars

\* What the user may type at the prompt of delete.
Answers ==
    {<<"y">>, <<"Y">>, <<" ", "y", "\n">>, <<"n">>, <<>>, <<"y", "e", "s">>, <<"Y", "E", "S">>}

\* A query's cache from its first read to clear_cache or delete.
NextCache ==
    /\ NoIteration
    /\ \E i \in Receivers :
        \/ Filter(i, ByContributor, MaxQueries)
        \/ \E how \in Reads : Read(i, how)
        \/ ClearCache(i)
        \/ \E force \in BOOLEAN : \E user_input \in Answers : Delete(i, force, user_input)
        \/ GetItem(i, IntIndex(0), MaxQueries)

SpecCache == Init /\ [][NextCache]_vars

\* iterate() against a server whose collection stays as it is.
ByOffset == <<KV("offset", IntV(1))>>
ByOrdering == <<KV("ordering", StrV("id"))>>

IterCalls ==
    \/ \E i \in Receivers : \E chunk_size \in 1..MaxChunk : Iterate(i, chunk_size)
    \/ IterStart
    \/ IterChunk
    \/ IterNext

NextIterStatic ==
    \/ /\ NoIteration
       /\ \E i \in Receivers :
            \/ \E kwargs \in {ByContributor, ByOffset, ByOrdering} :
                  Filter(i, kwargs, MaxQueries)
            \/ GetItem(i, FirstOne, MaxQueries)
            \/ Read(i, "__iter__")
    \/ IterCalls

SpecIterStatic == Init /\ [][NextIterStatic]_vars

\* iterate() on filtered queries, with a caller that goes on asking the
\* generator for the next item: a for loop over it, list(it).
NextIterFair ==
    \/ /\ NoIteration
       /\ \E i \in Receivers :
            \/ \E kwargs \in {ByContributor, ByOrdering} :
                  Filter(i, kwargs, MaxQueries)
            \/ Read(i, "__iter__")
    \/ IterCalls

SpecIterFair ==
    Init /\ [][NextIterFair]_vars /\ WF_vars(IterStart \/ IterChunk \/ IterNext)

\* iterate() against a server that gains and loses objects between requests.
NextIterLive ==
    \/ /\ NoIteration
       /\ \E i \in Receivers : Filter(i, ByContributor, MaxQueries)
    \/ IterCalls
    \/ ServerInsert
    \/ ServerRemove

SpecIterLive == Init /\ [][NextIterLive]_vars

\* Filter calls that give a key again, on the data endpoint (GET) and the
\* feature endpoint (POST) of one Resolwe object, and the queries read.
ByContributorTwo == <<KV("contributor", IntV(2))>>
RepeatArgs == {ByContributor, ByContributorTwo}

InitRepeat ==
    /\ server = ObjIds
    /\ fmaps = <<EmptyMap, EmptyMap>>
    /\ queries = <<NewQuery("data", SlugFieldOf("data"), 1),
                   NewQuery("feature", SlugFieldOf("feature"), 2)>>
    /\ last = NoCall
    /\ gen = NoGen
    /\ minted = NumObjects
    /\ ent = NoEntity
    /\ vq = NoValues

\* the query the last call of a chain on its endpoint returned
Tip(i) == \A j \in Receivers : j > i => queries[j].resource # queries[i].resource

NextRepeat ==
    /\ NoIteration
    /\ \E i \in Receivers :
        \/ \E kwargs \in RepeatArgs : Tip(i) /\ Filter(i, kwargs, MaxRepeat)
        \/ Tip(i) /\ Read(i, "__iter__")

SpecRepeat == InitRepeat /\ [][NextRepeat]_vars

\* Filter calls whose value is a resource object or a list, on a GET and on a
\* POST endpoint: the value given, and the id, the comma-joined string and the
\* native list it stands for.
EncodeCases ==
    {[k |-> "contributor", v |-> EntV(1), id |-> 1, joined |-> "", native |-> <<>>],
     [k |-> "id__in", v |-> SeqV(<<IntV(1), IntV(2)>>), id |-> 0, joined |-> "1,2",
      native |-> <<IntV(1), IntV(2)>>],
     [k |-> "id__in", v |-> SeqV(<<EntV(1), EntV(3)>>), id |-> 0, joined |-> "1,3",
      native |-> <<IntV(1), IntV(3)>>],
     [k |-> "slug__in", v |-> SeqV(<<StrV("a")>>), id |-> 0, joined |-> "a",
      native |-> <<StrV("a")>>]}

NextEncode ==
    /\ NoIteration
    /\ \E i \in Receivers :
        \/ \E c \in EncodeCases : Filter(i, <<KV(c.k, c.v)>>, MaxEncoded)
        \/ Filter(i, ByContributorTwo, MaxEncoded)
        \/ Read(i, "__iter__")

SpecEncode == InitRepeat /\ [][NextEncode]_vars

\* Filter calls with keys of several segments on the two types that refer to
\* each other: the type filtered, the segments, and the key to be sent.
KeyCases ==
    {[type |-> "outer", parts |-> <<"plain">>, key |-> "plain_srv"],
     [type |-> "outer", parts |-> <<"same">>, key |-> "same"],
     [type |-> "outer", parts |-> <<"rel", "inner">>, key |-> "relation__inner_srv"],
     [type |-> "outer", parts |-> <<"rel", "plain">>, key |-> "relation__plain"],
     [type |-> "outer", parts |-> <<"plain", "inner">>, key |-> "plain_srv__inner"],
     [type |-> "outer", parts |-> <<"plain", "plain">>, key |-> "plain_srv__plain"],
     [type |-> "outer", parts |-> <<"other", "plain">>, key |-> "other__plain"],
     [type |-> "outer", parts |-> <<"rel", "back", "plain", "in">>,
      key |-> "relation__back__plain_srv__in"],
     [type |-> "outer", parts |-> <<"rel", "in", "inner">>, key |-> "relation__in__inner"],
     [type |-> "inner", parts |-> <<"plain">>, key |-> "plain"],
     [type |-> "inner", parts |-> <<"back", "rel", "inner">>,
      key |-> "back__relation__inner_srv"],
     [type |-> "inner", parts |-> <<"inner", "back">>, key |-> "inner_srv__back"],
     [type |-> "inner", parts |-> <<"back", "same", "rel">>, key |-> "back__same__rel"]}

InitKeys ==
    /\ server = ObjIds
    /\ fmaps = <<EmptyMap, EmptyMap>>
    /\ queries = <<NewQuery("outer", SlugFieldOf("outer"), 1),
                   NewQuery("inner", SlugFieldOf("inner"), 2)>>
    /\ last = NoCall
    /\ gen = NoGen
    /\ minted = NumObjects
    /\ ent = NoEntity
    /\ vq = NoValues

NextKeys ==
    /\ NoIteration
    /\ \E i \in Receivers :
        \/ \E c \in KeyCases :
              /\ c.type = queries[i].resource
              /\ Filter(i, <<KV(JoinKey(c.parts), IntV(1))>>, MaxKeys)
        \/ Read(i, "__iter__")

SpecKeys == InitKeys /\ [][NextKeys]_vars

\* Chains of filter calls with different keys; the endpoint's query is also
\* sliced, and it and the first query derived from it are read.
BySlug == <<KV("slug", StrV("a"))>>
ChainArgs == {ByContributor, BySlug, ByContributor \o BySlug}

NextChain ==
    /\ NoIteration
    /\ \E i \in Receivers :
        \/ \E kwargs \in ChainArgs : Filter(i, kwargs, MaxChained)
        \/ (i = 1 /\ GetItem(i, FirstOne, MaxChained))
        \/ (i <= 2 /\ Read(i, "__iter__"))

SpecChain == Init /\ [][NextChain]_vars

\* Entities built by the caller or from a server payload, and assignments to
\* their fields.
Values ==
    {NullV, IntF(42), StrF("a"), ListF(<<StrF("a"), StrF("b")>>),
     ListF(<<StrF("a"), IntF(42)>>)}

\* the fields that hold plain values
ValueFields ==
    {"read_only_scalar", "updatable_scalar", "writable_scalar",
     "descriptor_dirty", "description", "tags"}

UserAttrs(type) ==
    IF type = "TestResource"
    THEN {<<>>, <<KV("writable_scalar", StrF("42")), KV("updatable_scalar", IntF(24))>>}
    ELSE {<<>>, <<KV("description", StrF("a"))>>, <<KV("tags", ListF(<<StrF("a"), IntF(42)>>))>>}

ServerPayloads(type) ==
    IF type = "TestResource"
    THEN {<<KV("read_only_scalar", IntF(42)), KV("updatable_scalar", IntF(24)),
            KV("writable_scalar", StrF("a"))>>}
    ELSE {<<KV("descriptor_dirty", BoolF(TRUE)), KV("description", StrF("a")),
            KV("tags", ListF(<<StrF("a"), StrF("b")>>))>>,
          <<KV("descriptor_dirty", BoolF(TRUE)), KV("tags", IntF(42))>>}

NextField ==
    \/ \E type \in EntityTypes : \E id \in {None, Some(1)} :
          \E attrs \in UserAttrs(type) : Construct(type, "USER", id, attrs)
    \/ \E type \in EntityTypes : \E payload \in ServerPayloads(type) :
          Construct(type, "SERVER", Some(1), payload)
    \/ \E f \in FieldNames(ent.type) \cap ValueFields : \E v \in Values : Assign(f, v)

SpecField == Init /\ [][NextField]_vars

\* A resource whose fields are declared with several constraints at once,
\* saved or not, assigned values that break none, one or several of them.
CheckValues ==
    {NullV, IntF(42), StrF("a"), ListF(<<IntF(1), IntF(2)>>),
     ListF(<<IntF(1), StrF("a")>>), LazyF(7)}

NextChecks ==
    \/ \E id \in {None, Some(1)} : Construct("TestChecks", "USER", id, <<>>)
    \/ \E f \in FieldNames("TestChecks") : \E v \in CheckValues :
          ent.type = "TestChecks" /\ Assign(f, v)
    \/ ForgetId

SpecChecks == Init /\ [][NextChecks]_vars

\* Entities with dict, timestamp and relation fields: built, read, assigned,
\* changed in place and asked which of their fields have changed.
RelatedFields == {"data", "samples", "relations"}

EntityPayloads(type) ==
    IF type = "Collection"
    THEN {<<KV("descriptor_dirty", BoolF(TRUE)), KV("duplicated", StrF(IsoOf(1))),
            KV("description", StrF("a")), KV("descriptor", DictF(<<>>)),
            KV("descriptor_schema", RefJ(7, "g"))>>,
          <<KV("description", StrF("a")), KV("descriptor_schema", IntF(7))>>,
          <<KV("description", StrF("a")), KV("descriptor", DictF(<<>>))>>}
    ELSE {<<KV("read_only_dict", DictF(<<>>)), KV("update_protected_dict", DictF(<<>>)),
            KV("first_field", IntF(42))>>}

EntityAttrs(type) ==
    IF type = "Collection"
    THEN {<<KV("description", StrF("a"))>>}
    ELSE {<<>>, <<KV("read_only_dict", DictF(<<>>))>>,
          <<KV("update_protected_dict", DictF(<<>>))>>}

EntityAssigns ==
    {KV("first_field", IntF(42)), KV("first_field", NullV),
     KV("description", StrF("b")),
     KV("descriptor", DictF(<<>>)),
     KV("descriptor_schema", ResF(7, "g")), KV("descriptor_schema", ResF(8, "h")),
     KV("update_protected_dict", DictF(<<>>))}

\* Values handed to to_json and to_python: None, single values and lists of
\* each kind, in native and in JSON form.
ConvertValues ==
    {NullV, IntF(7), StrF("a"), StrF(IsoOf(1)), DateF(1), ResF(7, "g"), RefJ(7, "g"),
     ListF(<<>>), ListF(<<IntF(8), IntF(7)>>),
     ListF(<<StrF(IsoOf(2)), StrF(IsoOf(1))>>), ListF(<<DateF(2), DateF(1)>>),
     ListF(<<ResF(8, "h"), ResF(7, "g")>>), ListF(<<RefJ(8, "h"), RefJ(7, "g")>>)}

NextConvert ==
    \/ \E id \in {None, Some(1)} : Construct("TestConvert", "USER", id, <<>>)
    \/ \E f \in FieldNames(ent.type) : \E value \in ConvertValues : ToJsonCall(f, value)
    \/ \E f \in FieldNames(ent.type) : \E json \in ConvertValues : ToPythonCall(f, json)

SpecConvert == Init /\ [][NextConvert]_vars

NextEntity ==
    \/ \E type \in {"Collection", "TestDicts"} : \E id \in {None, Some(1)} :
          \E attrs \in EntityAttrs(type) : Construct(type, "USER", id, attrs)
    \/ \E type \in {"Collection", "TestDicts"} : \E payload \in EntityPayloads(type) :
          Construct(type, "SERVER", Some(1), payload)
    \/ \E a \in EntityAssigns : Assign(a.k, a.v)
    \/ \E f \in FieldNames(ent.type) : GetAttr(f)
    \/ \E f \in FieldNames(ent.type) : Mutate(f)
    \/ \E f \in FieldNames(ent.type) \ RelatedFields : IsChanged(f)

SpecEntity == Init /\ [][NextEntity]_vars

\* Test resources with a read-only, an update-protected and a writable field:
\* built with or without an id, assigned, changed in place and saved.
SaveAttrs ==
    {<<>>, <<KV("read_only_dict", DictF(<<>>))>>,
     <<KV("update_protected_dict", DictF(<<>>))>>,
     <<KV("read_only_dict", DictF(<<>>)), KV("update_protected_dict", DictF(<<>>))>>}

SaveAssigns ==
    {KV("first_field", IntF(42)), KV("first_field", NullV),
     KV("update_protected_dict", DictF(<<>>)), KV("read_only_dict", DictF(<<>>))}

NextSave ==
    \/ \E id \in {None, Some(1)} : \E attrs \in SaveAttrs :
          Construct("TestDicts", "USER", id, attrs)
    \/ \E payload \in EntityPayloads("TestDicts") :
          Construct("TestDicts", "SERVER", Some(1), payload)
    \/ \E a \in SaveAssigns : Assign(a.k, a.v)
    \/ \E f \in FieldNames(ent.type) : Mutate(f)
    \/ \E answer \in {"ok", "HttpClientError"} : Save(answer)

SpecSave == Init /\ [][NextSave]_vars

\* A collection and a data object of the server whose relations are read and
\* which are updated while the server's objects change.
NextUpdate ==
    \/ \E payload \in EntityPayloads("Collection") :
          Construct("Collection", "SERVER", Some(1), payload)
    \/ ConstructData(Some(1))
    \/ \E f \in RelatedFields : ent.type = "Collection" /\ GetAttr(f)
    \/ \E f \in RelationCaches("Data") : DataRead(f)
    \/ \E a \in {KV("description", StrF("b"))} : ent.type = "Collection" /\ Assign(a.k, a.v)
    \/ ServerTouch
    \/ Update

SpecUpdate == Init /\ [][NextUpdate]_vars

\* A collection, saved or not, whose fields that assert existence are read
\* and assigned, and whose id is taken away.
ExistsAssigns ==
    {KV("data", ListF(<<>>)), KV("samples", NullV), KV("relations", LazyF(7)),
     KV("description", StrF("b"))}

NextExists ==
    \/ \E id \in {None, Some(1)} : \E attrs \in EntityAttrs("Collection") :
          Construct("Collection", "USER", id, attrs)
    \/ \E payload \in EntityPayloads("Collection") :
          Construct("Collection", "SERVER", Some(1), payload)
    \/ \E f \in RelatedFields \cup {"description"} : ent.type = "Collection" /\ GetAttr(f)
    \/ \E a \in ExistsAssigns : ent.type = "Collection" /\ Assign(a.k, a.v)
    \/ ServerTouch
    \/ ForgetId

SpecExists == Init /\ [][NextExists]_vars

\* A value query on a page of values whose field and sample come as bare ids
\* or as nested objects, the server holding all or some of the related objects.
RelationIds == {7, 8}

PageItems ==
    [field : {IntF(7), IntF(8), RefJ(7, "g")}, sample : {IntF(7), RefJ(8, "h")}]

Pages == UNION {[1..n -> PageItems] : n \in 1..MaxValues}

InitValues ==
    /\ server = ObjIds
    /\ fmaps = <<EmptyMap>>
    /\ queries = <<NewQuery("data", SlugFieldOf("data"), 1)>>
    /\ last = NoCall
    /\ gen = NoGen
    /\ minted = NumObjects
    /\ ent = NoEntity
    /\ \E page \in Pages : \E rels \in {RelationIds, {7}} :
          vq = [NoValues EXCEPT !.page = page, !.rels = rels]

NextValues ==
    \/ ValueFetch
    \/ \E i \in 1..MaxValues : \E f \in {"field", "sample"} : ValueRead(i, f)
    \/ \E i \in 1..MaxValues : \E f \in {"field", "sample"} : ValueChanged(i, f)

SpecValues == InitValues /\ [][NextValues]_vars

\* Several queries derived from one another, each used on its own; count() is
\* called on the endpoint's query.
NextShare ==
    /\ NoIteration
    /\ \E i \in Receivers :
        \/ All(i, MaxShared)
        \/ Filter(i, ByContributor, MaxShared)
        \/ Search(i, "a", MaxShared)
        \/ GetItem(i, FirstOne, MaxShared)
        \/ Read(i, "__iter__")
        \/ ClearCache(i)
        \/ (i = 1 /\ Count(i))
        \/ Get(i, <<IntV(1)>>, <<>>)

SpecShare == Init /\ [][NextShare]_vars

\* ------------------------------------------------------------ what a call may read
\* The state one query object owns: its filter map, limit, offset, cache, count.
QViewOf(h, qs, i) ==
    [filters |-> h[qs[i].filters], limit |-> qs[i].limit, offset |-> qs[i].offset,
     cache |-> qs[i].cache, count |-> qs[i].count]

QView(i) == QViewOf(fmaps, queries, i)

Derivations == {"filter", "all", "search", "getitem", "get"}

\* ------------------------------------------------------------ C1
\* C1: every query owns its filter map, limit, offset, cache and cached count.
\* A call changes no query but its receiver; filter, all, search, get and
\* subscripting do not change the receiver either; no two queries hold the same
\* filter map; a query just derived starts with no cache and no count.
C1_QueriesOwnTheirState ==
    [][ /\ \A i \in 1..Len(queries) : i # last'.recv => QView(i)' = QView(i)
        /\ last'.op \in Derivations =>
               QViewOf(fmaps', queries', last'.recv) = QView(last'.recv)
        /\ \A i \in 1..Len(queries') : \A j \in 1..Len(queries') :
               i # j => queries'[i].filters # queries'[j].filters
        /\ last'.newq # 0 =>
               /\ ~queries'[last'.newq].cache.some
               /\ ~queries'[last'.newq].count.some
               /\ queries'[last'.newq].limit.some = queries'[last'.newq].offset.some
      ]_vars

\* A derived query was read (so that its own filter map got the pagination keys
\* and its cache was filled) next to its parent and a sibling that were not.
C1_Witness ==
    /\ Len(queries) = 3
    /\ last.op = "__iter__" /\ last.recv = 2
    /\ queries[2].cache.some /\ queries[2].count.some
    /\ "limit" \in DOMAIN fmaps[queries[2].filters]
    /\ "contributor" \in DOMAIN fmaps[queries[3].filters]
    /\ \A i \in {1, 3} :
          /\ ~queries[i].cache.some /\ ~queries[i].count.some
          /\ "limit" \notin DOMAIN fmaps[queries[i].filters]

\* ------------------------------------------------------------ C2
\* C2: a query is built (no cache) or executed (cache).  A read of a built query
\* sends exactly one request and fills the cache; a read of an executed query
\* sends none and returns the same cache; a cache is only ever filled by a read
\* of its own query, dropped by its own clear_cache or delete, and never replaced.
C2_CacheStateMachine ==
    [][ \A i \in 1..Len(queries) :
          LET q == queries[i]
              q2 == queries'[i]
              isRead == last'.op \in Reads /\ last'.recv = i
          IN /\ (isRead /\ ~q.cache.some) =>
                   /\ Len(last'.reqs) = 1
                   /\ q2.cache.some
                   /\ q2.cache.v = ServerResponse(q.resource, server, last'.reqs[1]).results
                   /\ last'.ret = q2.cache.v
             /\ (isRead /\ q.cache.some) =>
                   /\ last'.reqs = <<>>
                   /\ q2.cache = q.cache
                   /\ last'.ret = q.cache.v
             /\ (q.cache.some /\ ~q2.cache.some) =>
                   last'.op \in {"clear_cache", "delete"} /\ last'.recv = i
             /\ (q.cache.some /\ q2.cache.some) => q2.cache = q.cache
             /\ (~q.cache.some /\ q2.cache.some) => isRead
      ]_vars

\* An executed query, holding entities, was read again: no request was sent.
C2_Witness ==
    /\ last.op \in Reads
    /\ last.reqs = <<>>
    /\ queries[last.recv].cache.some
    /\ last.ret = queries[last.recv].cache.v
    /\ Len(last.ret) > 1

\* ------------------------------------------------------------ C3
\* T: the objects on the server that pass the query's filters, pagination aside
TrueTotal(i) ==
    Cardinality(Matching(queries[i].resource, server, fmaps[queries[i].filters]))

\* C3: count() returns max(0, min(L, T - O)) for a query with limit L and
\* offset O, and T for a query with no limit, whether the query is unexecuted,
\* executed or cleared.
C3_CountAsStated ==
    last.op = "count" =>
        LET q == queries[last.recv]
        IN /\ last.result = "ok"
           /\ last.val = IF q.limit.some
                         THEN Max(0, Min(q.limit.v, TrueTotal(last.recv) - q.offset.v))
                         ELSE TrueTotal(last.recv)

\* ------------------------------------------------------------ C4
NegativeIndex(idx) ==
    IF idx.slice
    THEN (idx.start.some /\ idx.start.v < 0) \/ (idx.stop.some /\ idx.stop.v < 0)
    ELSE idx.n < 0

ValueErrors ==
    { "ValueError: Negative indexing is not supported.",
      "ValueError: step parameter in slice is not supported",
      "ValueError: Only one non-keyworded argument can be given",
      "ValueError: Non-keyworded arguments cannot be combined with keyworded ones." }

\* C4: a negative int, a slice with a negative start or stop, or a slice with a
\* step raises ValueError whatever the state of the query, with no request sent
\* and no query changed.
C4_BadIndexRaises ==
    [][ LET i == last'.recv  idx == last'.idx IN
          (last'.op = "getitem" /\ (NegativeIndex(idx) \/ idx.step.some)) =>
              /\ last'.result \in ValueErrors
              /\ last'.reqs = <<>>
              /\ last'.kind = "none"
              /\ queries' = queries /\ fmaps' = fmaps
      ]_vars

\* A sliced query that had been read refused the subscript [-1:].
C4_Witness ==
    /\ last.op = "getitem"
    /\ last.result = "ValueError: Negative indexing is not supported."
    /\ last.idx = SliceIndex(Some(-1), None, None)
    /\ queries[last.recv].cache.some
    /\ queries[last.recv].limit.some

\* ------------------------------------------------------------ C5
SlicedError == "NotImplementedError: You cannot slice already sliced query."

\* C5: a slice applied to a query that carries a limit or an offset (the result
\* of a slice, [0:0] and [0:n] included) raises and sends no request, whether
\* or not that query has been executed.
C5_ResliceAsStated ==
    [][ LET i == last'.recv  idx == last'.idx IN
          (/\ last'.op = "getitem" /\ idx.slice
           /\ ~NegativeIndex(idx) /\ ~idx.step.some
           /\ (queries[i].limit.some \/ queries[i].offset.some)) =>
              /\ last'.result = SlicedError
              /\ last'.reqs = <<>>
      ]_vars

\* ------------------------------------------------------------ C6
SliceStart(idx) == IF idx.start.some THEN idx.start.v ELSE 0
SliceStop(idx) == IF idx.stop.some THEN idx.stop.v ELSE 1000000

\* a lazy slice q[a:b] of a query that carries no limit or offset
LazySlice(i, idx) ==
    LET q == queries[i]
        nq == queries'[Len(queries')]
    IN /\ last'.result = "ok" /\ last'.kind = "query" /\ last'.reqs = <<>>
       /\ Len(queries') = Len(queries) + 1 /\ last'.newq = Len(queries')
       /\ \A j \in 1..Len(queries) : QViewOf(fmaps', queries', j) = QView(j)
       /\ nq.offset = Some(SliceStart(idx))
       /\ nq.limit = Some(SliceStop(idx) - SliceStart(idx))
       /\ ~nq.cache.some /\ ~nq.count.some
       /\ nq.resource = q.resource
       /\ nq.filters # q.filters
       /\ fmaps'[nq.filters] = fmaps[q.filters]

WellFormed(call) ==
    Len(call.args) <= 1 /\ (Len(call.args) = 1 => call.kwargs = <<>>)

\* the keys the caller's criteria name, on query object q
CriteriaKeys(q, call) ==
    IF Len(call.args) = 1
    THEN {IF call.args[1].t = "int" THEN "id" ELSE q.slug_field}
    ELSE KwKeys(call.kwargs)

\* the keys get() hands to _add_filter
AddedKeys(q, call) ==
    CriteriaKeys(q, call)
    \cup (IF q.slug_field \in CriteriaKeys(q, call) THEN {"limit"} ELSE {})
    \cup (IF q.slug_field \in CriteriaKeys(q, call) /\ Versioned(q.resource)
          THEN {"ordering"} ELSE {})

\* one of those keys already holds a raw (non-list) value in the receiver's map
Collides(i, call) ==
    \E k \in AddedKeys(queries[i], call) :
        k \in DOMAIN fmaps[queries[i].filters] /\ ~fmaps[queries[i].filters][k].list

NoMatch == "LookupError: Matching object does not exist."
Multiple == "LookupError: get() returned more than one object."

\* ------------------------------------------------------------ C7
\* C7: get() with more than one positional argument, or with a positional
\* argument and keyword criteria, raises ValueError; no request is sent and no
\* query (filters, limit, offset, cache) changes.
C7_GetArgumentErrors ==
    [][ LET i == last'.recv  call == last'.call IN
          (last'.op = "get" /\ ~WellFormed(call)) =>
              /\ last'.result \in ValueErrors
              /\ last'.reqs = <<>>
              /\ last'.kind = "none"
              /\ queries' = queries /\ fmaps' = fmaps
      ]_vars

\* get(1, contributor=1) was refused on a query that had been derived and read.
C7_Witness ==
    /\ last.op = "get"
    /\ last.result = "ValueError: Non-keyworded arguments cannot be combined with keyworded ones."
    /\ last.recv > 1
    /\ queries[last.recv].cache.some

\* ------------------------------------------------------------ C8
\* the objects that pass the receiver's filters and the caller's criteria
CriteriaHits(i, call) ==
    LET q == queries[i]
        kw == IF Len(call.args) = 1
              THEN <<KV(IF call.args[1].t = "int" THEN "id" ELSE SlugFieldOf(q.resource),
                        call.args[1])>>
              ELSE call.kwargs
    IN {id \in Matching(q.resource, server, fmaps[q.filters]) :
          \A j \in 1..Len(kw) :
             kw[j].k \in PaginationKeys \/ MatchKey(q.resource, id, kw[j].k, kw[j].v)}

\* C8 (as stated): get returns the entity when exactly one object matches the
\* criteria, raises "no match" when none does and "multiple matches" when more
\* than one does, by id, by slug and by keyword alike, after exactly one request.
\* (Stated for receivers that carry no limit or offset.)
C8_GetAsStated ==
    [][ LET i == last'.recv  call == last'.call IN
          (/\ last'.op = "get" /\ WellFormed(call)
           /\ ~queries[i].limit.some /\ ~queries[i].offset.some) =>
              LET n == Cardinality(CriteriaHits(i, call))
              IN /\ Len(last'.reqs) = 1
                 /\ n = 0 => last'.result = NoMatch
                 /\ n > 1 => last'.result = Multiple
                 /\ n = 1 => /\ last'.result = "ok"
                             /\ last'.ret[1] \in CriteriaHits(i, call)
      ]_vars

\* C8 (amended): a well-formed get sends exactly one request and judges by the
\* entities in its response: one is returned, none is "no match", more than one
\* is "multiple matches".  The request carries the receiver's filters, the
\* criteria and the receiver's own limit and offset.  When it carries no limit,
\* the response holds every matching object.  A lookup on the query object's
\* slug field, by a receiver without a limit and without an explicit limit,
\* asks for one entity: it returns the first match in the server's order and
\* never raises "multiple matches".  When a key get() adds already holds a raw
\* value in the receiver's filter map (the pagination keys of a sliced query that
\* was read), get raises AttributeError and sends no request.
C8_GetJudgesByResponse ==
    [][ LET i == last'.recv  call == last'.call IN
          (last'.op = "get" /\ WellFormed(call)) =>
              LET q == queries[i]
              IN /\ queries' = queries /\ fmaps' = fmaps
                 /\ IF Collides(i, call)
                    THEN last'.result = "AttributeError" /\ last'.reqs = <<>>
                    ELSE /\ Len(last'.reqs) = 1
                         /\ LET req == last'.reqs[1]
                                hits == Matching(q.resource, server, req)
                                resp == ServerResponse(q.resource, server, req).results
                            IN /\ \A k \in DOMAIN fmaps[q.filters] : k \in DOMAIN req
                               /\ \A k \in AddedKeys(q, call) : k \in DOMAIN req
                               /\ \A j \in 1..Len(call.kwargs) :
                                     (q.limit.some /\ call.kwargs[j].k = "limit")
                                     \/ EffVal(req[call.kwargs[j].k]) = call.kwargs[j].v
                               /\ Len(call.args) = 1 =>
                                     \E k \in CriteriaKeys(q, call) :
                                        EffVal(req[k]) = call.args[1]
                               /\ q.limit.some => req["limit"] = Raw(IntV(q.limit.v))
                               /\ q.offset.some => req["offset"] = Raw(IntV(q.offset.v))
                               /\ Len(resp) = 0 => last'.result = NoMatch
                               /\ Len(resp) > 1 => last'.result = Multiple
                               /\ Len(resp) = 1 => last'.result = "ok" /\ last'.ret = resp
                               /\ "limit" \notin DOMAIN req =>
                                     Len(resp) = Cardinality(hits)
                               /\ (/\ q.slug_field \in CriteriaKeys(q, call)
                                   /\ "limit" \notin KwKeys(call.kwargs)
                                   /\ ~q.limit.some /\ ~q.offset.some) =>
                                     /\ last'.result # Multiple
                                     /\ hits # {} =>
                                          last'.ret = <<Ordered(hits, req)[1]>>
      ]_vars

\* get("a") on an endpoint's query returned one entity although two objects
\* carry that slug.
C8_Witness ==
    /\ last.op = "get" /\ last.result = "ok" /\ last.recv = 1
    /\ Len(last.reqs) = 1
    /\ queries[1].slug_field \in DOMAIN last.reqs[1]
    /\ Cardinality(Matching(queries[1].resource, server, last.reqs[1])) > 1
    /\ last.ret = <<1>>

\* ------------------------------------------------------------ C9
\* C9 (as stated): every request a get() sends carries limit=1, by id, by slug
\* and by keyword alike, unless the caller passed a limit.
C9_LimitAsStated ==
    [][ LET i == last'.recv  call == last'.call IN
          (/\ last'.op = "get" /\ WellFormed(call)
           /\ "limit" \notin KwKeys(call.kwargs)
           /\ Len(last'.reqs) = 1) =>
              /\ "limit" \in DOMAIN last'.reqs[1]
              /\ EffVal(last'.reqs[1]["limit"]) = IntV(1)
      ]_vars

\* C9 (amended): get() adds limit=1 only when the criteria name the query
\* object's slug field (a positional non-integer, or that keyword) and the caller
\* passed no limit; a limit the caller passed is sent as given; by id or by other
\* keywords get() adds no limit, so the request's limit is the receiver's own
\* entry, if it has one.  When the receiver carries a limit of its own (a slice),
\* that limit is the one sent, whatever get() added.
C9_LimitOnlyForSlugField ==
    [][ LET i == last'.recv  call == last'.call IN
          (/\ last'.op = "get" /\ WellFormed(call)
           /\ Len(last'.reqs) = 1) =>
              LET q == queries[i]
                  fm == fmaps[q.filters]
                  req == last'.reqs[1]
                  explicit == "limit" \in KwKeys(call.kwargs)
                  bySlug == q.slug_field \in CriteriaKeys(q, call)
              IN IF q.limit.some
                 THEN req["limit"] = Raw(IntV(q.limit.v))
                 ELSE IF explicit
                 THEN EffVal(req["limit"]) = KwGet(call.kwargs, "limit", IntV(0))
                 ELSE IF bySlug
                 THEN EffVal(req["limit"]) = IntV(1)
                 ELSE IF "limit" \in DOMAIN fm
                 THEN req["limit"] = fm["limit"]
                 ELSE "limit" \notin DOMAIN req
      ]_vars

\* get(1) found its object with a request that carried the id and no limit.
C9_Witness ==
    /\ last.op = "get" /\ last.result = "ok"
    /\ Len(last.reqs) = 1
    /\ "id" \in DOMAIN last.reqs[1]
    /\ "limit" \notin DOMAIN last.reqs[1]
    /\ last.ret = <<1>>

\* ------------------------------------------------------------ C10
\* C10: on every query of a type, the endpoint's and the ones derived from it by
\* filter, all, search or a slice, get(x) with one positional non-integer x
\* filters on the type's slug field (username for user, slug otherwise) and
\* get(n) with an integer n filters on id.
C10_SlugFieldAsStated ==
    [][ LET i == last'.recv  call == last'.call IN
          (/\ last'.op = "get"
           /\ Len(call.args) = 1 /\ call.kwargs = <<>>
           /\ Len(last'.reqs) = 1) =>
              LET k == IF call.args[1].t = "int" THEN "id"
                       ELSE SlugFieldOf(queries[i].resource)
              IN /\ k \in DOMAIN last'.reqs[1]
                 /\ EffVal(last'.reqs[1][k]) = call.args[1]
      ]_vars

\* ------------------------------------------------------------ iterate(), read
\* the query carries a limit, an offset or an ordering, by a slice or as a filter
CarriesPaging(i) ==
    \/ queries[i].limit.some
    \/ queries[i].offset.some
    \/ PaginationKeys \cap DOMAIN fmaps[queries[i].filters] # {}

\* the objects the query the generator was made for selects
GenHits == Matching(queries[gen.recv].resource, server, fmaps[queries[gen.recv].filters])

IsPrefix(a, b) == Len(a) <= Len(b) /\ \A j \in 1..Len(a) : a[j] = b[j]

Increasing(a) == \A j \in 1..Len(a) : \A k \in 1..Len(a) : j < k => a[j] < a[k]

Running == gen.pc \in {"loop", "yielded", "done"}

\* ------------------------------------------------------------ C11
\* C11: iterate() on a query that carries a limit, an offset or an ordering
\* filter raises ValueError at the iterate() call itself, before the first
\* element is asked for and before any request.
C11_IterateRaisesAtCall ==
    [][ (last'.op = "iterate" /\ CarriesPaging(last'.recv)) =>
            /\ last'.result \in
                 { IterateCheck(fmaps[queries[j].filters], queries[j]) :
                      j \in 1..Len(queries) } \ {"ok"}
            /\ last'.reqs = <<>>
      ]_vars

\* ------------------------------------------------------------ C12
\* C12: against a server whose collection stays as it is, iterate(chunk_size)
\* on a query without limit, offset and ordering yields the matching entities in
\* strictly increasing id order, each once, count() of them in all, and ends.
C12_IterateYieldsAll ==
    /\ [](~CarriesPaging(IF gen.recv = 0 THEN 1 ELSE gen.recv) =>
            /\ gen.pc # "raised"
            /\ Running =>
                 /\ gen.count = Cardinality(GenHits)
                 /\ gen.obj_count = Len(gen.out)
                 /\ IsPrefix(gen.out, AscSeq(GenHits))
                 /\ gen.pc = "done" =>
                      gen.out = AscSeq(GenHits) /\ Len(gen.out) = gen.count)
    /\ (gen.pc = "created" /\ ~CarriesPaging(gen.recv)) ~> (gen.pc = "done")

\* All the objects came out of chunks of two, and the generator ended.
C12_Witness ==
    /\ gen.pc = "done"
    /\ gen.chunk_size = 2
    /\ Len(gen.out) = NumObjects /\ Increasing(gen.out)
    /\ gen.count = NumObjects
    /\ ~CarriesPaging(gen.recv)

\* ------------------------------------------------------------ C13
\* C13: whatever the server gains or loses between chunk requests, the ids
\* iterate() yields are strictly increasing (so no item comes twice), and every
\* chunk request asks for ids greater than the greatest id yielded so far.
C13_AtMostOnceIncreasing ==
    /\ [](Increasing(gen.out))
    /\ [][ (IterChunk /\ gen'.pc \in {"loop", "yielded"}) =>
              /\ Len(last'.reqs) = 1
              /\ EffVal(last'.reqs[1]["id__gt"]) =
                    IntV(IF gen.out = <<>> THEN 0 ELSE gen.out[Len(gen.out)])
              /\ EffVal(last'.reqs[1]["ordering"]) = StrV("id")
              /\ \A j \in 1..Len(gen'.buf) :
                    gen'.buf[j] > gen'.out[Len(gen'.out)]
       ]_vars

\* An object the server gained during the iteration was yielded after an object
\* had gone.
C13_Witness ==
    /\ Len(gen.out) >= 2
    /\ gen.out[Len(gen.out)] = NumObjects + 1
    /\ \E id \in 1..NumObjects : id \notin server
    /\ Increasing(gen.out)

\* ------------------------------------------------------------ C14
\* C14: iterate() ends when a chunk request returns no item (so that it sends
\* finitely many chunk requests whatever the server gains or loses).
C14_EndsOnEmptyChunk ==
    [][ (/\ IterChunk
         /\ Len(last'.reqs) = 1
         /\ ServerResponse(queries[gen.recv].resource, server, last'.reqs[1]).results
               = <<>>) =>
            gen'.pc = "done"
      ]_vars

\* ------------------------------------------------------------ C15
\* C15 (as stated): iterate() never yields more items than the count it
\* obtained before the first chunk request.
C15_NeverMoreThanCount ==
    Running => Len(gen.out) <= gen.count

\* C15 (amended): the count is compared between chunks only.  No chunk request
\* is sent once the items yielded have reached the count, and a chunk that was
\* asked for is yielded whole: fewer than count + chunk_size items are yielded
\* (none when the count is 0).
C15_CountTestedBetweenChunks ==
    /\ [](Running =>
            /\ gen.obj_count = Len(gen.out)
            /\ gen.count = 0 => gen.out = <<>>
            /\ gen.count > 0 => Len(gen.out) <= gen.count + gen.chunk_size - 1
            /\ Len(gen.buf) + Len(gen.out) <= gen.count + gen.chunk_size - 1
                 \/ gen.count = 0)
    /\ [][ (IterChunk /\ Len(gen.out) >= gen.count) =>
              last'.reqs = <<>> /\ gen'.pc = "done" /\ gen'.out = gen.out ]_vars
    /\ [][ gen.pc \in {"loop", "yielded"} => gen'.count = gen.count ]_vars

\* More items were yielded than the count taken of the whole collection: the
\* server gained one while chunks of several items were read.
C15_Witness ==
    /\ Running
    /\ gen.count = NumObjects /\ gen.chunk_size > 1
    /\ Len(gen.out) > gen.count


\* ------------------------------------------------------------ filter(), chained
\* what a filter call gives back, as the caller can see it
CallView(r) ==
    IF r.err # "ok" THEN [err |-> r.err]
    ELSE [err |-> "ok", filters |-> r.h[r.q.filters],
          limit |-> r.q.limit, offset |-> r.q.offset]

\* q.filter(**A).filter(**B)
Chained(h, q, A, B) ==
    LET first == FilterCall(h, q, A)
    IN IF first.err # "ok" THEN first ELSE FilterCall(first.h, first.q, B)

\* the values a map holds for a key
ValsOf(fm, k) == IF k \in DOMAIN fm THEN fm[k].vals ELSE <<>>

\* ------------------------------------------------------------ C16
\* C16: a filter key given again in a chained filter call accumulates for a
\* GET type: the new query holds the values given so far, in the order given,
\* and its request carries them all; for a POST type the key holds, and the
\* body carries, the last value only.
C16_RepeatedKeyByMethod ==
    /\ [][ \A i \in Receivers : \A kwargs \in RepeatArgs :
             (Filter(i, kwargs, MaxRepeat) /\ last'.result = "ok") =>
                LET old == fmaps[queries[i].filters]
                    new == fmaps'[queries'[last'.newq].filters]
                IN \A j \in 1..Len(kwargs) :
                     LET k == kwargs[j].k
                         v == kwargs[j].v
                     IN IF QueryMethod(queries[i].resource) = "GET"
                        THEN new[k] = ListOf(Append(ValsOf(old, k), v))
                        ELSE new[k] = Raw(v)
         ]_vars
    /\ [][ (last'.op = "__iter__" /\ last'.reqs # <<>>) =>
             LET q == queries[last'.recv]
             IN \A k \in DOMAIN fmaps[q.filters] \ PaginationKeys :
                   /\ k \in DOMAIN last'.reqs[1]
                   /\ last'.reqs[1][k] = fmaps[q.filters][k]
         ]_vars

\* A GET query made by filter(contributor=1).filter(contributor=2) was read and
\* its request carried both values in that order, while a POST query made the
\* same way holds the last value alone.
C16_Witness ==
    /\ last.op = "__iter__" /\ Len(last.reqs) = 1
    /\ queries[last.recv].resource = "data"
    /\ "contributor" \in DOMAIN last.reqs[1]
    /\ last.reqs[1]["contributor"] = ListOf(<<IntV(1), IntV(2)>>)
    /\ \E j \in Receivers :
          /\ queries[j].resource = "feature"
          /\ "contributor" \in DOMAIN fmaps[queries[j].filters]
          /\ fmaps[queries[j].filters]["contributor"] = Raw(IntV(2))
          /\ \E p \in Receivers :
                /\ queries[p].resource = "feature"
                /\ "contributor" \in DOMAIN fmaps[queries[p].filters]
                /\ fmaps[queries[p].filters]["contributor"] = Raw(IntV(1))

\* ------------------------------------------------------------ C17
\* C17: for filter arguments A and B with no key in common, q.filter(**A)
\* .filter(**B) gives a query with the same filter map, limit and offset as
\* q.filter(**A, **B) (or both raise the same error), and a filter call sends
\* no request.
C17_ChainedIsCombined ==
    /\ [](\A i \in Receivers :
          \A A \in ChainArgs \cup {LimitTwo} : \A B \in ChainArgs \cup {LimitTwo} :
            KwKeys(A) \cap KwKeys(B) = {} =>
               CallView(Chained(fmaps, queries[i], A, B))
                  = CallView(FilterCall(fmaps, queries[i], A \o B)))
    /\ [][ last'.op = "filter" =>
             /\ last'.reqs = <<>>
             /\ server' = server
             /\ \E kwargs \in ChainArgs :
                  LET r == FilterCall(fmaps, queries[last'.recv], kwargs)
                  IN /\ r.err = last'.result
                     /\ r.err = "ok" =>
                          /\ fmaps' = r.h
                          /\ queries'[last'.newq] = r.q
         ]_vars

\* The endpoint's query was filtered by contributor and slug at once (query 2),
\* then by contributor (query 3), and that one by slug (query 4): queries 2 and
\* 4 hold the same map, limit and offset.
C17_Witness ==
    /\ Len(queries) = 4
    /\ DOMAIN fmaps[queries[1].filters] \cap {"contributor", "slug"} = {}
    /\ DOMAIN fmaps[queries[2].filters] \ PaginationKeys = {"contributor", "slug"}
    /\ DOMAIN fmaps[queries[3].filters] = {"contributor"}
    /\ last.op = "filter" /\ last.recv = 3 /\ last.newq = 4
    /\ fmaps[queries[4].filters] = fmaps[queries[2].filters]
    /\ queries[4].limit = queries[2].limit /\ queries[4].offset = queries[2].offset

\* ------------------------------------------------------------ fields: claims
\* An assignment of the caller to a field of a built entity has just been made
Assigned == ent.type # "none" /\ ent.call.op = "set"

\* The step is an assignment to a field of the access type given
AssignTo(access) ==
    /\ ent.type # "none"
    /\ ent'.call.op = "set"
    /\ FieldDef(ent'.call.field).access_type = access

\* The value is one the field takes: right cardinality and types
Acceptable(f, v) ==
    /\ CheckMany(f, v) = "ok"
    /\ CheckAllowNull(f, v) = "ok"
    /\ CheckTypes(f, v) = "ok"

\* The step stored the value assigned
Stored ==
    /\ ent'.call.result = "ok"
    /\ ent'.fields[ent'.call.field].value = ent'.call.value
    /\ ent'.fields[ent'.call.field].status = "SET"

\* The step raised the error given and left every field as it was
Rejected(err) == ent'.call.result = err /\ ent'.fields = ent.fields

WrongType(f, v) ==
    /\ FieldDef(f).typed
    /\ v.t # "null"
    /\ IF FieldDef(f).many
       THEN \/ v.t # "list"
            \/ \E j \in 1..Len(v.items) : ~IsInstance(v.items[j], FieldDef(f).accepted_types)
       ELSE ~IsInstance(v, FieldDef(f).accepted_types)

NativeOf(f, original) ==
    IF original.t = "null" THEN NullV
    ELSE IF FieldDef(f).kind = "datetime" THEN FromIso(original).v
    ELSE IF FieldDef(f).kind = "resource" /\ original.t = "int" THEN FetchObject(original.n)
    ELSE IF FieldDef(f).kind = "resource" THEN ResourceOf(original)
    ELSE original

\* changed has just been asked of a field
AskedChanged == ent.type # "none" /\ ent.call.op = "changed"

\* C21: changed is false for a field whose status is UNSET or LAZY, true for a
\* WRITABLE or UPDATE_PROTECTED field with status SET on an entity without id,
\* and otherwise true exactly when the current value differs from the last
\* value received from the server.
C21_ChangedAsStated ==
    AskedChanged =>
        LET f == ent.call.field
            field == ent.fields[f]
        IN /\ ent.call.result = "ok"
           /\ IF field.status \in {"UNSET", "LAZY"}
              THEN ent.call.ret = BoolF(FALSE)
              ELSE IF ~ent.id.some
                      /\ FieldDef(f).access_type \in {"WRITABLE", "UPDATE_PROTECTED"}
              THEN ent.call.ret = BoolF(TRUE)
              ELSE ent.call.ret = BoolF(field.value # NativeOf(f, field.original))


\* C22: for a relation field with status SET on a created entity, changed is
\* true exactly when the identity (the field's property, id or slug) of the
\* current related object differs from the identity in the original server
\* value; it is false after the caller assigns an object of the same identity.
C22_RelationChangedAsStated ==
    (/\ AskedChanged
     /\ FieldDef(ent.call.field).kind = "resource"
     /\ ent.fields[ent.call.field].status = "SET"
     /\ ent.id.some
     /\ ent.fields[ent.call.field].original.t = "dict"
     /\ ent.fields[ent.call.field].value.t = "resource") =>
        LET f == ent.call.field
            property_name == FieldDef(f).property_name
        IN /\ ent.call.result = "ok"
           /\ ent.call.ret =
                 BoolF(JsonProperty(ent.fields[f].original, property_name).v
                          # ObjectProperty(ent.fields[f].value, property_name).v)


\* C23: right after an entity has been built from a server payload, changed is
\* false for every one of its fields, whatever their types.
C23_ServerEntityUnchanged ==
    [][(ent.type = "none" /\ ent'.type # "none" /\ ent'.origin = "SERVER") =>
          \A f \in FieldNames(ent'.type) :
              Changed(ent', f) = [err |-> "ok", val |-> FALSE]]_vars


\* C24: a relation field received as a bare id has status LAZY until it is
\* first read or assigned; the read of a LAZY field invokes the deferred loader
\* once (one fetch by id) and leaves the status SET; a read of a SET field
\* invokes no loader, sends nothing and returns the value the field holds. The
\* initial loader of a field is invoked on the read of an UNSET field of a
\* created entity and on no other read.
C24_MaterializedOnce ==
    /\ [][(ent.type = "none" /\ ent'.type # "none") =>
             \A f \in FieldNames(ent'.type) :
                 (FieldDef(f).kind = "resource" /\ ent'.fields[f].original.t = "int")
                     => ent'.fields[f].status = "LAZY"]_vars
    /\ [][\A f \in FieldNames(ent.type) :
             (ent.fields[f].status = "LAZY" /\ ent'.fields[f].status # "LAZY")
                 => (ent'.call.op \in {"get", "set"} /\ ent'.call.field = f)]_vars
    /\ [][\A f \in FieldNames(ent.type) : GetAttr(f) =>
             LET was == ent.fields[f]
                 initial == FieldDef(f).initial_loader /\ ent.id.some
             IN /\ was.status = "LAZY" =>
                      /\ ent'.call.loads = 1
                      /\ ent'.call.reqs = 1
                      /\ ent'.call.ret = FetchObject(was.value.n)
                      /\ ent'.fields[f].value = ent'.call.ret
                      /\ ent'.fields[f].status = "SET"
                /\ was.status = "SET" =>
                      /\ ent'.call.loads = 0
                      /\ ent'.call.reqs = 0
                      /\ ent'.call.ret = was.value
                      /\ ent'.fields = ent.fields
                /\ (was.status = "UNSET" /\ initial) =>
                      /\ ent'.call.loads = 1
                      /\ ent'.fields[f].status = "SET"
                      /\ ent'.fields[f].value = ent'.call.ret
                /\ (was.status = "UNSET" /\ ~initial) =>
                      /\ ent'.call.loads = 0
                      /\ ent'.fields = ent.fields]_vars

C24_Witness ==
    /\ ent.type = "Collection"
    /\ ent.call.op = "get"
    /\ ent.call.field = "descriptor_schema"
    /\ ent.call.loads = 0
    /\ ent.call.ret = FetchObject(7)
    /\ ent.fields["descriptor_schema"] =
          [value |-> FetchObject(7), original |-> IntF(7), status |-> "SET"]
    /\ ent.fields["data"].status = "SET"

\* ------------------------------------------------------------ C25, C26
\* The relation ids the values of the query wait for in field f before a
\* fetch: those of the cached values still LAZY, or, before the base request,
\* the bare ids of the page the server will answer with.
Waiting(f) ==
    IF vq.fetched
    THEN {vq.cache[j].fields[f].original.n :
             j \in {i \in 1..Len(vq.cache) : vq.cache[i].fields[f].status = "LAZY"}}
    ELSE {vq.page[j][f].n : j \in {i \in 1..Len(vq.page) : vq.page[i][f].t = "int"}}

EndpointOf(f) == IF f = "field" THEN "annotation_field" ELSE "sample"

\* the requests of the last call that went to the endpoint given
RequestsTo(call, endpoint) ==
    SelectSeq(call.reqs, LAMBDA r : r.endpoint = endpoint)

\* the least number of chunks of the default size that hold n objects
ChunksFor(n) == (n + DefaultChunkSize - 1) \div DefaultChunkSize

WaitingAt(j, f) ==
    IF vq.fetched
    THEN IF vq.cache[j].fields[f].status = "LAZY" THEN vq.cache[j].fields[f].original.n ELSE 0
    ELSE IF vq.page[j][f].t = "int" THEN vq.page[j][f].n ELSE 0

\* the j-th value holds in field f the related object with the id given, as
\* value and as original, with status SET
Hydrated(value, f, id) ==
    value.fields[f] =
        [value |-> FetchObject(id), original |-> FetchObject(id), status |-> "SET"]

\* C26: after a value query has executed, every value whose deferred relation
\* id was returned by the bulk query holds the returned entity with status SET
\* and the original refreshed to it, so that changed is false for that field
\* and reading it sends no request; values waiting on one id hold one entity.
C26_HydratedUnchanged ==
    [][ValueFetch =>
          \A j \in 1..Len(vq.page) : \A f \in {"field", "sample"} :
             (WaitingAt(j, f) # 0 /\ WaitingAt(j, f) \in vq.rels) =>
                /\ Hydrated(vq'.cache[j], f, WaitingAt(j, f))
                /\ Changed(vq'.cache[j], f) = [err |-> "ok", val |-> FALSE]
                /\ GetField(vq'.cache[j], f).reqs = 0
                /\ GetField(vq'.cache[j], f).ret = FetchObject(WaitingAt(j, f))
                /\ \A i \in 1..Len(vq.page) :
                      WaitingAt(i, f) = WaitingAt(j, f) =>
                         vq'.cache[i].fields[f].value = vq'.cache[j].fields[f].value]_vars

\* the same without the answer of changed
C26_HydratedOnly ==
    [][ValueFetch =>
          \A j \in 1..Len(vq.page) : \A f \in {"field", "sample"} :
             (WaitingAt(j, f) # 0 /\ WaitingAt(j, f) \in vq.rels) =>
                /\ Hydrated(vq'.cache[j], f, WaitingAt(j, f))
                /\ GetField(vq'.cache[j], f).reqs = 0
                /\ GetField(vq'.cache[j], f).ret = FetchObject(WaitingAt(j, f))
                /\ \A i \in 1..Len(vq.page) :
                      WaitingAt(i, f) = WaitingAt(j, f) =>
                         vq'.cache[i].fields[f].value = vq'.cache[j].fields[f].value]_vars

\* ------------------------------------------------------------ C27
\* the field holds a value other than the one last taken from the server or
\* given at construction
Differs(e, f) == e.fields[f].status = "SET" /\ e.fields[f].value # e.fields[f].original

\* the fields of the kind save() refuses that differ
Refused(e) ==
    {f \in FieldNames(e.type) :
        /\ Differs(e, f)
        /\ \/ FieldDef(f).access_type = "READ_ONLY"
           \/ FieldDef(f).access_type = "UPDATE_PROTECTED" /\ e.id.some}

C27_WitnessUnsaved ==
    /\ ent.call.op = "save"
    /\ ent.call.result = "ValueError: Not allowed to change fields"
    /\ ~ent.id.some
    /\ ent.call.ret = ListF(<<StrF("read_only_dict")>>)

\* ------------------------------------------------------------ C28
\* the next access to the relation f of the entity
NextAccess(e, f) == IF e.type = "Data" THEN DataGet(e, f) ELSE GetField(e, f)

\* C28: after update() on a Collection or a Data entity every relation cache
\* of it (data, samples, relations; children, collection, descriptor schema,
\* parents, process, sample) has been discarded: none holds what it held
\* before unless that is what the server holds now, and the next access to
\* each gives what the server holds now.
C28_UpdateDropsCaches ==
    [][(ent'.call.op = "update" /\ Update) =>
          \A f \in RelationCaches(ent.type) :
             /\ ent'.fields[f].value \in {NullV, Fresh(ent')}
             /\ NextAccess(ent', f).result = "ok"
             /\ NextAccess(ent', f).ret = Fresh(ent')]_vars

\* a data object updated after the server changed, all of whose relation
\* attributes held what the server had before
C28_Witness ==
    /\ ent.type = "Data"
    /\ ent.call.op = "update"
    /\ ent.epoch > 0
    /\ ent.call.value.items = [j \in 1..6 |-> ListF(<<IntF(0)>>)]
    /\ \A f \in RelationCaches("Data") : ent.fields[f].value # ListF(<<IntF(0)>>)

\* a collection updated after the server changed, whose data, samples and
\* relations had been read before
C28_WitnessCollection ==
    /\ ent.type = "Collection"
    /\ ent.call.op = "update"
    /\ ent.epoch > 0
    /\ ent.call.value.items = [j \in 1..3 |-> ListF(<<IntF(0)>>)]
    /\ \A f \in RelationCaches("Collection") : ent.fields[f].status = "UNSET"

\* ------------------------------------------------------------ C29
\* C29: reading or assigning a field that asserts existence on an entity
\* whose id is absent always raises ValueError, without invoking the field's
\* initial-value loader, without any request and without changing the
\* field's value or status.
C29_UnsavedRaises ==
    [][\A f \in {g \in FieldNames(ent.type) : FieldDef(g).assert_exists} :
          ((GetAttr(f) \/ \E a \in ExistsAssigns : a.k = f /\ Assign(a.k, a.v))
              /\ ~ent.id.some) =>
             /\ ent'.call.result = "ValueError: Instance must be saved"
             /\ ent'.call.loads = 0
             /\ ent'.call.reqs = 0
             /\ ent'.fields = ent.fields]_vars

\* the data of a collection, read once and kept, is read again after the id
\* was taken away: the read raises and the field holds what it held
C29_Witness ==
    /\ ent.type = "Collection"
    /\ ~ent.id.some
    /\ ent.call.op = "get"
    /\ ent.call.field = "data"
    /\ ent.call.result = "ValueError: Instance must be saved"
    /\ ent.call.loads = 0
    /\ ent.fields["data"].status = "SET"
    /\ ent.fields["samples"].status = "UNSET"

\* an assignment to the samples of a collection that was never saved
C29_WitnessAssign ==
    /\ ent.type = "Collection"
    /\ ~ent.id.some
    /\ ent.call.op = "set"
    /\ ent.call.field = "samples"
    /\ ent.call.result = "ValueError: Instance must be saved"
    /\ ent.fields["samples"] = Unset

\* ------------------------------------------------------------ C30
\* the answers that are 'y' once the blanks around them are dropped and the
\* letters are made small
SaysYes == {<<"y">>, <<"Y">>, <<" ", "y", "\n">>}

\* the members of the query were each deleted once and the query is built anew
DeletedAll(i) ==
    /\ queries[i].cache.some => last'.ret = queries[i].cache.v
    /\ last'.val = Len(last'.ret)
    /\ \A j, k \in 1..Len(last'.ret) : last'.ret[j] = last'.ret[k] => j = k
    /\ server' = server \ {last'.ret[j] : j \in 1..Len(last'.ret)}
    /\ queries'[i].cache = NoCache
    /\ queries'[i].count = None

\* nothing was deleted and the cache of the query is as it was
DeletedNothing(i) ==
    /\ server' = server
    /\ queries'[i].cache = queries[i].cache

C31_LaterReadsSendNothing ==
    [][(vq.fetched /\ ValueFetch) => vq'.call.reqs = <<>>]_vars

\* the same for the queries all of whose deferred ids the server returned
C31_LaterReadsWhenAllReturned ==
    [][(vq.fetched /\ ValueFetch /\ Waiting("field") \cup Waiting("sample") = {}) =>
          vq'.call.reqs = <<>>]_vars

\* ------------------------------------------------------------ C32
\* the field of the created entity awaits materialization and was never
\* assigned by the caller: it holds the deferred marker the server's bare id
\* was turned into, or nothing yet while an initial loader is declared
Unmaterialized(e, f) ==
    /\ e.id.some
    /\ \/ /\ e.fields[f].status = "LAZY"
          /\ e.fields[f].original.t = "int"
          /\ e.fields[f].value = LazyF(e.fields[f].original.n)
       \/ e.fields[f] = Unset /\ FieldDef(f).initial_loader

\* C32: materializing a field on read is no user edit: for a created entity
\* and a field the caller never assigned, reading the field (through the
\* initial loader or a deferred relation marker of the server) leaves changed
\* false for it, and the original is replaced by the materialized value.
C32_ReadIsNoEdit ==
    [][\A f \in FieldNames(ent.type) :
          (ent'.call.op = "get" /\ GetAttr(f) /\ Unmaterialized(ent, f)) =>
             /\ Changed(ent', f) = [err |-> "ok", val |-> FALSE]
             /\ ent'.fields[f].original = ent'.fields[f].value]_vars

\* the original of a deferred relation after the read is still the bare id
C32_OriginalKept ==
    [][\A f \in FieldNames(ent.type) :
          (ent'.call.op = "get" /\ GetAttr(f) /\ ent.fields[f].status = "LAZY"
              /\ Unmaterialized(ent, f)) =>
             /\ ent'.fields[f].original = ent.fields[f].original
             /\ ent'.fields[f].value = FetchObject(ent.fields[f].original.n)
             /\ Changed(ent', f).err # "ok"]_vars

\* ------------------------------------------------------------ C33
\* what the five checks of an assignment answer, in the order identity-
\* existence, cardinality, write-access, nullability, type
FiveChecks(e, f, v) ==
    <<CheckExists(e, f), CheckMany(f, v), CheckWriteable(e, f), CheckAllowNull(f, v),
      CheckTypes(f, v)>>

\* C33: an assignment enforces its checks in the order identity-existence,
\* cardinality, write-access, nullability, type: the error raised is that of
\* the earliest violated check, and the value is stored (status SET, or LAZY
\* for a deferred loader) only if all five pass.
C33_ChecksInOrder ==
    [][\A f \in FieldNames(ent.type) : \A v \in CheckValues :
          (ent'.call.op = "set" /\ Assign(f, v)) =>
             LET checks == FiveChecks(ent, f, v)
                 violated == {j \in 1..5 : checks[j] # "ok"}
             IN IF violated = {}
                THEN /\ ent'.call.result = "ok"
                     /\ ent'.fields[f].value = v
                     /\ ent'.fields[f].status = IF v.t = "lazy" THEN "LAZY" ELSE "SET"
                ELSE /\ \E j \in violated :
                           /\ \A k \in violated : j <= k
                           /\ ent'.call.result = checks[j]
                     /\ ent'.fields = ent.fields]_vars

\* a string assigned to the read-only list field of a saved entity breaks the
\* cardinality and the write check: the cardinality error is raised
C33_Witness ==
    /\ ent.type = "TestChecks"
    /\ ent.id.some
    /\ ent.call.op = "set"
    /\ ent.call.field = "exists_many_ro"
    /\ ent.call.value = StrF("a")
    /\ CheckWriteable(ent, "exists_many_ro") # "ok"
    /\ ent.call.result = "ValueError: must be list"

\* a deferred loader assigned to an untyped writable field is kept as LAZY
C33_WitnessStored ==
    /\ ent.type = "TestChecks"
    /\ ent.call.op = "set"
    /\ ent.call.result = "ok"
    /\ ent.fields["plain_w"] = [value |-> LazyF(7), original |-> NullV, status |-> "LAZY"]
    /\ ent.fields["many_up_ints"].status = "SET"

\* ------------------------------------------------------------ C34
\* the value the filter call just made stored for the key of case c
StoredFor(c) == EffVal(fmaps'[queries'[last'.newq].filters][c.k])

\* C34: filter values are encoded per query method: a resource object is
\* replaced by its id; a list is flattened to a comma-joined string for a GET
\* endpoint and kept as a native list of dehydrated elements in the body for
\* a POST endpoint.
C34_EncodedPerMethod ==
    [][\A i \in Receivers : \A c \in EncodeCases :
          (last'.op = "filter" /\ Filter(i, <<KV(c.k, c.v)>>, MaxEncoded)) =>
             IF c.v.t = "entity" THEN StoredFor(c) = IntV(c.id)
             ELSE IF QueryMethod(queries[i].resource) = "GET"
             THEN StoredFor(c) = StrV(c.joined)
             ELSE StoredFor(c) = SeqV(c.native)]_vars

\* what holds instead: the list is joined with commas for both query methods
C34_JoinedForBoth ==
    [][\A i \in Receivers : \A c \in EncodeCases :
          (last'.op = "filter" /\ Filter(i, <<KV(c.k, c.v)>>, MaxEncoded)) =>
             IF c.v.t = "entity" THEN StoredFor(c) = IntV(c.id)
             ELSE StoredFor(c) = StrV(c.joined)]_vars

\* ------------------------------------------------------------ C35
\* C35: each "__"-separated segment of a filter key is resolved against the
\* fields of the type addressed so far, starting from the query's type: a
\* segment naming a field is renamed to the field's server name, the addressed
\* type moves to the target type only after a relation field, and from the
\* first segment that is no field of the addressed type, or that follows a
\* field that is no relation, the segments are kept as written.
C35_SegmentsResolved ==
    [][\A i \in Receivers : \A c \in KeyCases :
          (/\ last'.op = "filter"
           /\ c.type = queries[i].resource
           /\ Filter(i, <<KV(JoinKey(c.parts), IntV(1))>>, MaxKeys)) =>
             DOMAIN fmaps'[queries'[last'.newq].filters]
                = DOMAIN fmaps[queries[i].filters] \cup {c.key}]_vars

\* a key through two relations was renamed, and its operator suffix kept
C35_Witness ==
    /\ last.op = "filter"
    /\ last.newq > 0
    /\ queries[last.newq].resource = "outer"
    /\ DOMAIN fmaps[queries[last.newq].filters] = {"relation__back__plain_srv__in"}

\* a segment after a field that is no relation was kept as written
C35_WitnessKept ==
    /\ last.op = "filter"
    /\ last.newq > 0
    /\ DOMAIN fmaps[queries[last.newq].filters] = {"plain_srv__plain"}

\* ------------------------------------------------------------ C36
\* the offset q[n] is to ask for
PointOffset(q, n) == IF q.offset.some THEN q.offset.v + n ELSE n

\* C36: q[n] with n >= 0 on a query that has not been executed sends exactly
\* one request, with offset = the query's offset + n (n when it has none) and
\* limit = 1; the query stays unexecuted and as it was; the call returns the
\* entity received and raises the out-of-range error exactly when the answer
\* is empty.
C36_PointIndexAsStated ==
    [][\A i \in Receivers : \A n \in 0..MaxIndex :
          (/\ last'.op = "getitem"
           /\ last'.recv = i
           /\ last'.idx = IntIndex(n)
           /\ ~queries[i].cache.some
           /\ GetItem(i, IntIndex(n), MaxPoint)) =>
             /\ Len(last'.reqs) = 1
             /\ EffVal(last'.reqs[1]["offset"]) = IntV(PointOffset(queries[i], n))
             /\ EffVal(last'.reqs[1]["limit"]) = IntV(1)
             /\ queries' = queries
             /\ fmaps' = fmaps
             /\ LET received == ServerResponse(queries[i].resource, server,
                                               last'.reqs[1]).results
                IN IF received = <<>>
                   THEN last'.result = "IndexError: list index out of range"
                   ELSE /\ last'.result = "ok"
                        /\ last'.kind = "entity"
                        /\ last'.ret = <<received[1]>>]_vars

\* the second item of a slice that starts at 1 was asked for at offset 2
C36_Witness ==
    /\ last.op = "getitem"
    /\ ~last.idx.slice
    /\ last.idx.n = 1
    /\ queries[last.recv].offset = Some(1)
    /\ ~queries[last.recv].cache.some
    /\ Len(last.reqs) = 1
    /\ EffVal(last.reqs[1]["offset"]) = IntV(2)
    /\ last.result = "ok"
    /\ last.ret = <<3>>

\* the index was past the end: one request sent, the error raised
C36_WitnessOutOfRange ==
    /\ last.op = "getitem"
    /\ ~last.idx.slice
    /\ ~queries[last.recv].cache.some
    /\ Len(last.reqs) = 1
    /\ last.result = "IndexError: list index out of range"

\* ------------------------------------------------------------ C37
\* what q[n] gives once q is executed: the item of the cache, or no item
\* (the out-of-range error)
ItemAt(cache, n) == IF n < Len(cache) THEN <<cache[n + 1]>> ELSE <<>>

\* C37: with the server's collection fixed, q[n] before q is executed and q[n]
\* after q is executed give the same entity or both raise the out-of-range
\* error, for every query (sliced or not) and every n >= 0.
C37_SameBeforeAndAfter ==
    [][\A i \in Receivers : \A n \in 0..MaxIndex :
          (/\ last'.op = "getitem"
           /\ last'.recv = i
           /\ last'.idx = IntIndex(n)
           /\ ~queries[i].cache.some
           /\ GetItem(i, IntIndex(n), MaxPoint)) =>
             last'.ret = ItemAt(Fetch(fmaps, queries[i], server).q.cache.v, n)]_vars

\* what holds instead: the two agree for a query that has no limit, neither
\* from a slice nor from a filter
C37_SameWhenUnlimited ==
    [][\A i \in Receivers : \A n \in 0..MaxIndex :
          (/\ last'.op = "getitem"
           /\ last'.recv = i
           /\ last'.idx = IntIndex(n)
           /\ ~queries[i].cache.some
           /\ ~queries[i].limit.some
           /\ "limit" \notin DOMAIN fmaps[queries[i].filters]
           /\ GetItem(i, IntIndex(n), MaxPoint)) =>
             last'.ret = ItemAt(Fetch(fmaps, queries[i], server).q.cache.v, n)]_vars

\* ------------------------------------------------------------ C38
\* C38: in every query made by filter, all, slicing and indexing, limit and
\* offset are both absent or both non-negative, also after a slice whose stop
\* is smaller than its start, and no request carries a negative limit or
\* offset.
C38_PaginationNonNegative ==
    /\ \A i \in Receivers :
         /\ queries[i].limit.some <=> queries[i].offset.some
         /\ queries[i].limit.some => queries[i].limit.v >= 0
         /\ queries[i].offset.some => queries[i].offset.v >= 0
    /\ \A j \in 1..Len(last.reqs) : \A k \in {"limit", "offset"} :
         k \in DOMAIN last.reqs[j] => EffVal(last.reqs[j][k]).n >= 0

\* what holds instead: both absent or both present, and the offset is never
\* negative
C38_OffsetNonNegative ==
    /\ \A i \in Receivers :
         /\ queries[i].limit.some <=> queries[i].offset.some
         /\ queries[i].offset.some => queries[i].offset.v >= 0
    /\ \A j \in 1..Len(last.reqs) :
         "offset" \in DOMAIN last.reqs[j] => EffVal(last.reqs[j]["offset"]).n >= 0

\* ------------------------------------------------------------ C39
\* C39: changed is total: for a field of any type in any state an entity can
\* reach, with or without id, it returns true or false and never raises.
C39_ChangedNeverRaises ==
    AskedChanged => ent.call.result = "ok"

\* what holds instead: changed never raises for a field that is neither a
\* timestamp nor a relation
C39_PlainNeverRaises ==
    (AskedChanged /\ FieldDef(ent.call.field).kind \notin {"datetime", "resource"}) =>
        ent.call.result = "ok"

\* ------------------------------------------------------------ C40
\* to_json or to_python has just been called
Converted == ent.type # "none" /\ ent.call.op \in {"to_json", "to_python"}

\* the field of the same class that holds one value
SingleOf(f) ==
    CASE f = "c_plain_many" -> "c_plain"
      [] f = "c_time_many" -> "c_time"
      [] f = "c_rel_many" -> "c_rel"
      [] f = "c_idrel_many" -> "c_idrel"
      [] OTHER -> f

\* the conversion of one value by the call's operation
ConvertedBy(op, f, value) ==
    IF op = "to_json" THEN ToJson(f, value) ELSE ToPython(f, value)

\* C40: to_json(None) and to_python(None, entity) return None without raising
\* for plain, timestamp, relation, id-serialized relation and multi-valued
\* fields alike; a multi-valued field converts a list item by item, keeping
\* length and order.
C40_NullAndElementwise ==
    Converted =>
        LET c == ent.call
        IN /\ c.value = NullV => (c.result = "ok" /\ c.ret = NullV)
           /\ (FieldDef(c.field).many /\ c.value.t = "list" /\ c.result = "ok") =>
                 /\ c.ret.t = "list"
                 /\ Len(c.ret.items) = Len(c.value.items)
                 /\ \A j \in 1..Len(c.value.items) :
                       c.ret.items[j] = ConvertedBy(c.op, SingleOf(c.field), c.value.items[j]).v

\* what holds instead: the same for the fields that are no relations
C40_HoldsForNoRelation ==
    (Converted /\ FieldDef(ent.call.field).kind # "resource") =>
        LET c == ent.call
        IN /\ c.value = NullV => (c.result = "ok" /\ c.ret = NullV)
           /\ (FieldDef(c.field).many /\ c.value.t = "list" /\ c.result = "ok") =>
                 /\ c.ret.t = "list"
                 /\ Len(c.ret.items) = Len(c.value.items)
                 /\ \A j \in 1..Len(c.value.items) :
                       c.ret.items[j] = ConvertedBy(c.op, SingleOf(c.field), c.value.items[j]).v

\* and None is kept by both conversions of a single-valued relation that is
\* serialized as a dictionary
C40_NullKeptByDictRelation ==
    (Converted /\ ent.call.field = "c_rel" /\ ent.call.value = NullV) =>
        (ent.call.result = "ok" /\ ent.call.ret = NullV)
====
